---- MODULE Spec2Model ----
(***************************************************************************)
(* The Smart Connection failover engine of the Cloudflare DNS bot          *)
(* (src/bot.py): the ping probe, the reserve/deprecated IP pool, the       *)
(* failover run, the per-record scheduler and the operator handlers.       *)
(*                                                                         *)
(* The bot is one asyncio process.  A coroutine runs without interruption  *)
(* from one `await` to the next, so every action below is the code between *)
(* two awaits.  The DNS provider calls (requests, cloudflare_api.py) are   *)
(* synchronous and never yield.  Updates (messages, callbacks) are handled *)
(* one at a time (Application is built without concurrent_updates,         *)
(* src/bot.py:983), while jobs of the job queue run as tasks of their own. *)
(***************************************************************************)
EXTENDS Integers, Sequences, FiniteSets, TLC

\* ------------------------------------------------------------------ bounds
\* events in one behaviour: failover runs started and operator updates handled
MaxEvents == 3
\* nodes in one probe result
MaxNodes == 3
\* address tokens in one add-reserve message
MaxTokens == 4

\* --------------------------------------------------------------- constants
ADMIN_ID == 123456789
\* an authorized user who is not the administrator
OTHER_USER == ADMIN_ID + 1
\* asyncio.Semaphore(5)
SEMAPHORE_PERMITS == 5

CLEAN_IP_SOURCE == <<"8.8.8.8", "8.8.4.4", "1.1.1.1", "1.0.0.1">>

Range(s) == {s[i] : i \in DOMAIN s}

\* the value Python's None / a missing dict key stands for
None == "None"

\* list.remove(x): deletes the first occurrence
RECURSIVE ListRemove(_, _)
ListRemove(s, x) ==
    IF s = <<>> THEN <<>>
    ELSE IF Head(s) = x THEN Tail(s)
    ELSE <<Head(s)>> \o ListRemove(Tail(s), x)

\* ================================================================ the probe
\* One exchange with check-host.net as check_ip_ping sees it: the step at which
\* it fails, or the per-node results.  A node's value is what results.get(node)
\* holds: null, something that is no list, an empty list, a list whose first
\* element is falsy or no list, or [[ping, ...]].
\* A ping is "OK" (a list starting with "OK"), "TIMEOUT" (a list starting with
\* anything else), "MALFORMED" (no list) or "EMPTY" (an empty list).
NodeValues ==
    { [kind |-> "null", pings |-> <<>>],
      [kind |-> "not_list", pings |-> <<>>],
      [kind |-> "empty_list", pings |-> <<>>],
      [kind |-> "first_falsy", pings |-> <<>>],
      [kind |-> "first_not_list", pings |-> <<>>],
      [kind |-> "pings", pings |-> <<"OK">>],
      [kind |-> "pings", pings |-> <<"TIMEOUT">>],
      [kind |-> "pings", pings |-> <<"TIMEOUT", "OK">>],
      [kind |-> "pings", pings |-> <<"MALFORMED", "EMPTY">>],
      [kind |-> "pings", pings |-> <<"TIMEOUT", "TIMEOUT">>] }

NodeSeqs == UNION {[1..n -> NodeValues] : n \in 0..MaxNodes}

ErrorSteps == {"submit_error", "no_request_id", "fetch_error", "parse_error"}

Exchange(step, results) == [step |-> step, results |-> results]

ProbeExchanges ==
    {Exchange(s, <<>>) : s \in ErrorSteps} \cup {Exchange("results", ns) : ns \in NodeSeqs}

Locations == {"ir", "de"}

\* str.lower() on the location strings the configuration can hold
Lower(s) == CASE s = "IR" -> "ir" [] s = "DE" -> "de" [] OTHER -> s

\* line 131: the node's value is skipped unless it is [[...], ...] with a
\* non-empty first list
NodeSkipped(node) == node.kind # "pings" \/ node.pings = <<>>

\* line 134: the pings that are lists, non-empty, and start with "OK"
successful_pings_count(node) == Cardinality({i \in DOMAIN node.pings : node.pings[i] = "OK"})

\* lines 124-137: the loop over the nodes
successful_nodes_count_mutant(results) ==
    Cardinality({i \in DOMAIN results : ~NodeSkipped(results[i])})
successful_nodes_count(results) ==
    Cardinality({i \in DOMAIN results :
        ~NodeSkipped(results[i]) /\ successful_pings_count(results[i]) > 0})

\* line 125: every key of the result is counted, before its value is looked at
total_nodes_mutant(results) == Cardinality({i \in DOMAIN results : ~NodeSkipped(results[i])})
total_nodes(results) == Len(results)

\* what a call of check_ip_ping ends with: the pair (ok, detail) it returns, or
\* an exception leaving it (raised)
Verdict(ok, detail, successful, total, raised) ==
    [ok |-> ok, detail |-> detail, successful |-> successful, total |-> total,
     raised |-> raised]

\* lines 105-148
check_ip_ping_mutant(exchange, location) ==
    IF exchange.step # "results" THEN Verdict(FALSE, "api_error", 0, 0, TRUE)
    ELSE Verdict(successful_nodes_count(exchange.results) > 0, "count",
                 successful_nodes_count(exchange.results), total_nodes(exchange.results), FALSE)
check_ip_ping(exchange, location) ==
    IF exchange.step = "no_request_id" THEN Verdict(FALSE, "invalid_initial_response", 0, 0, FALSE)
    ELSE IF exchange.step # "results" THEN Verdict(FALSE, "api_error", 0, 0, FALSE)
    ELSE IF total_nodes(exchange.results) = 0 THEN Verdict(FALSE, "no_nodes", 0, 0, FALSE)
    ELSE Verdict(IF Lower(location) = "ir"
                    THEN successful_nodes_count(exchange.results) = total_nodes(exchange.results)
                    ELSE successful_nodes_count(exchange.results) > 0,
                 "count",
                 successful_nodes_count(exchange.results), total_nodes(exchange.results), FALSE)

NoVerdict == Verdict(FALSE, None, 0, 0, FALSE)

\* ================================================================ the state
\* The two persisted documents, the DNS provider's records, the job queue and
\* the coroutines in progress.
Zones == {"zone1"}
RecordIds == {"rec1", "rec2"}
Keys == Zones \X RecordIds

\* a record as get_record_details returns it; {} (falsy) when there is none
DnsRecord(name, type, content, ttl, proxied) ==
    [exists |-> TRUE, name |-> name, type |-> type, content |-> content,
     ttl |-> ttl, proxied |-> proxied]
NoRecord ==
    [exists |-> FALSE, name |-> None, type |-> None, content |-> None,
     ttl |-> 0, proxied |-> FALSE]

\* the pool document smart_connect_ips.json; NoFile before its first write
Pool(reserve, deprecated) == [exists |-> TRUE, reserve |-> reserve, deprecated |-> deprecated]
NoFile == [exists |-> FALSE, reserve |-> <<>>, deprecated |-> <<>>]

IPs == Range(CLEAN_IP_SOURCE) \cup {"2.2.2.2"}

Users == {ADMIN_ID, OTHER_USER}

VARIABLES
    probe_exchange,   \* the exchange of the probe under test
    probe_location,   \* its vantage
    probe_verdict,    \* what check_ip_ping returned for it, None before the call
    inbox,            \* the text messages on their way to handle_message
    ip_file,          \* smart_connect_ips.json
    clean_ip_source,  \* the module-level list CLEAN_IP_SOURCE
    settings_file,    \* smart_connect_settings.json: the auto_check_records list
    jobs,             \* the job queue: the live repeating jobs
    next_job_id,      \* identity of the next job object
    disabled,         \* history: the keys whose auto-check was last set to interval 0
    fired,            \* history: the startup timers whose first firing has been observed
    dns,              \* the provider's records, by (zone_id, record_id)
    run,              \* the failover runs (run_smart_check_with_semaphore calls)
    semaphore,        \* the semaphore's free permits
    user_state,       \* user_state[uid]: the selected zone and the input mode
    booted,           \* main() has registered the jobs and started polling
    ops,              \* operator updates handled so far
    last_op,          \* the last operator update: its input, the state it found, its reply
    users_file,       \* users.json
    blocked_file,     \* blocked_users.json: the blocked_ids list
    requests_file,    \* access_requests.json: the ids of the pending requests
    zones             \* the provider's zones

drawn_vars == <<probe_exchange, probe_location, probe_verdict, inbox>>
pool_vars == <<ip_file, clean_ip_source>>
sched_vars == <<settings_file, jobs, next_job_id, disabled, fired>>
run_vars == <<dns, run, semaphore>>
op_vars == <<user_state, ops, last_op>>
access_vars == <<users_file, blocked_file, requests_file, zones>>

vars == <<drawn_vars, pool_vars, sched_vars, run_vars, op_vars, booted, access_vars>>

\* ---------------------------------------------------------------- documents
\* load_ip_lists (line 99): the document, or the default whose reserve IS the
\* list CLEAN_IP_SOURCE (the same object, not a copy) when there is no file.
\* alias says that the loaded reserve is that shared list.
load_ip_lists ==
    IF ip_file.exists
    THEN [reserve |-> ip_file.reserve, deprecated |-> ip_file.deprecated, alias |-> FALSE]
    ELSE [reserve |-> clean_ip_source, deprecated |-> <<>>, alias |-> TRUE]

\* the first entry of the list for (zone_id, record_id); 0 when there is none
\* (next(..., None), lines 276, 837, 878)
FindConfig_mutant(record_list, zone_id, record_id) == 0
FindConfig(record_list, zone_id, record_id) ==
    LET hits == {i \in DOMAIN record_list :
                    record_list[i].record_id = record_id /\ record_list[i].zone_id = zone_id}
    IN IF hits = {} THEN 0 ELSE CHOOSE i \in hits : \A j \in hits : i <= j

\* dict.get(key, default) on a config entry
EntryGet(entry, key, default) == IF key \in DOMAIN entry THEN entry[key] ELSE default

\* cloudflare_api.get_record_details (lines 208-213)
get_record_details(zone_id, record_id) ==
    IF <<zone_id, record_id>> \in DOMAIN dns THEN dns[<<zone_id, record_id>>] ELSE NoRecord

\* cloudflare_api.update_dns_record (lines 239-251) when the provider accepts
\* the PUT: the record takes every field of the payload
update_dns_record_mutant(d, zone_id, record_id, name, type, content, ttl, proxied) == d
update_dns_record(d, zone_id, record_id, name, type, content, ttl, proxied) ==
    [d EXCEPT ![<<zone_id, record_id>>] = DnsRecord(name, type, content, ttl, proxied)]

\* ---------------------------------------------------------------- the runs
RunIds == 1..MaxEvents

IdleRun ==
    [pc |-> "idle", zone_id |-> None, record_id |-> None, user_id |-> 0, job_id |-> 0,
     record_details |-> NoRecord, current_ip |-> None, check_location |-> None,
     is_pinging |-> FALSE, report_text |-> None,
     ip_lists |-> [reserve |-> <<>>, deprecated |-> <<>>], alias |-> FALSE,
     next_ip |-> None, new_ip_found |-> FALSE, notification_text |-> <<>>,
     msgs |-> <<>>, outcome |-> None,
     \* what the run did, kept for the properties
     loaded |-> NoFile, disturbed |-> FALSE, clobbered |-> FALSE]

\* a run that has returned; its frame is gone
ReturnedRun == [IdleRun EXCEPT !.pc = "returned"]

InFlight(rn) == rn.pc \notin {"idle", "done", "returned"}

\* the run holds a permit: it is inside `async with semaphore` (from the
\* acquire to the release at its return)
Admitted(rn) == rn.pc \notin {"idle", "waiting", "done", "returned"}

\* the runs of this behaviour
RunSlots == DOMAIN run

\* no run is at the point of returning
NoneReturning == \A r \in RunSlots : run[r].pc # "done"

\* runs started and updates handled so far
Events == ops + Cardinality({r \in RunSlots : run[r].pc # "idle"})

\* the events observed in one behaviour: one per run slot
EventLimit == Len(run)

\* the set_schedule handler is at its await of query.answer (lines 890, 894),
\* the edited list not yet saved
SavePending == last_op.op = "set_schedule" /\ last_op.pc = "answer"

\* an update handler is in progress: a manual run is awaited by handle_callback
\* (line 870), or a set_schedule awaits its answer; the next update is not
\* taken before it returns
UpdateInProgress ==
    \/ \E r \in RunSlots : InFlight(run[r]) /\ run[r].user_id # 0
    \/ SavePending

\* the run's ip_lists["reserve"]
RunReserve(w, r) == IF w.run[r].alias THEN w.clean ELSE w.run[r].ip_lists.reserve

SetRunReserve(w, r, s) ==
    IF w.run[r].alias THEN [w EXCEPT !.clean = s] ELSE [w EXCEPT !.run[r].ip_lists.reserve = s]

\* the state a run's step reads and writes
\* (save_ok: the write of the pool document in this step succeeds)
World == [run |-> run, ip_file |-> ip_file, clean |-> clean_ip_source, dns |-> dns,
          semaphore |-> semaphore, save_ok |-> TRUE]

\* What a step of run r did to the runs it overlaps: disturbed, when it wrote
\* the pool (the document or the shared list) while they were in progress;
\* clobbered, when it wrote the record they are working on.
Interleave(w, r) ==
    [w EXCEPT !.run = [q \in RunSlots |->
        IF q # r /\ Admitted(run[q])
        THEN [w.run[q] EXCEPT
                !.disturbed = @ \/ w.ip_file # ip_file \/ w.clean # clean_ip_source,
                !.clobbered = @ \/ w.dns[<<run[q].zone_id, run[q].record_id>>]
                                     # dns[<<run[q].zone_id, run[q].record_id>>]]
        ELSE w.run[q]]]

Commit(w, r) ==
    LET v == Interleave(w, r) IN
    /\ run' = v.run
    /\ ip_file' = v.ip_file
    /\ clean_ip_source' = v.clean
    /\ dns' = v.dns
    /\ semaphore' = v.semaphore

Line(line, ip) == [line |-> line, ip |-> ip]

\* `async with semaphore` (line 325): entering takes a permit, leaving (by
\* return or by exception) gives it back
acquire_mutant(value) == value
acquire(value) == value - 1

release_mutant(value) == value
release(value) == value + 1

\* the run returns (or an exception leaves it): `async with` releases the permit
Return(w, r, outcome) ==
    [w EXCEPT !.run[r].pc = "done", !.run[r].outcome = outcome,
              !.semaphore = release(w.semaphore)]

\* save_ip_lists(ip_lists), line 318
save_ip_lists_mutant(w, r) == w
save_ip_lists(w, r) ==
    [w EXCEPT !.ip_file = Pool(RunReserve(w, r), w.run[r].ip_lists.deprecated)]

\* lines 315-321 up to the await of send_message; when the write of the pool
\* document raises (save_data, lines 95-97), the exception leaves the run
Epilogue(w, r) ==
    LET w1 == IF w.run[r].new_ip_found THEN w
              ELSE [w EXCEPT !.run[r].notification_text = @ \o <<Line("warning", None)>>]
        w2 == save_ip_lists(w1, r)
    IN IF w.save_ok THEN [w2 EXCEPT !.run[r].pc = "send_report"]
       ELSE Return(w1, r, "raised")

\* lines 312-313: the update of these candidates failed; each gets its line in
\* the report and nothing else
ApplyFailed_mutant(w, r, failed) ==
    [w EXCEPT !.run[r].notification_text = @ \o [i \in DOMAIN failed |-> Line("apply_failed", failed[i])],
              !.run[r].ip_lists.deprecated = @ \o failed]
ApplyFailed(w, r, failed) ==
    [w EXCEPT !.run[r].notification_text = @ \o [i \in DOMAIN failed |-> Line("apply_failed", failed[i])]]

\* lines 297-303: the loop from its head to the next await.  `failures` is the
\* number of candidates, taken from the head of reserve, for which
\* update_dns_record returns False before one is accepted (or reserve is empty).
Rotate(w, r, failures) ==
    LET reserve == RunReserve(w, r)
        rn == w.run[r]
    IN IF failures >= Len(reserve)
       THEN LET w1 == SetRunReserve(w, r, <<>>)
            IN Epilogue(ApplyFailed([w1 EXCEPT !.run[r].next_ip = IF reserve = <<>> THEN @
                                                                  ELSE reserve[Len(reserve)]],
                                    r, reserve),
                        r)
       ELSE LET next_ip == reserve[failures + 1]
                w1 == ApplyFailed(SetRunReserve(w, r, SubSeq(reserve, failures + 2, Len(reserve))),
                                  r, SubSeq(reserve, 1, failures))
            IN [w1 EXCEPT
                 !.dns = update_dns_record(@, rn.zone_id, rn.record_id,
                             rn.record_details.name, rn.record_details.type, next_ip,
                             rn.record_details.ttl, rn.record_details.proxied),
                 !.run[r].next_ip = next_ip,
                 !.run[r].notification_text = @ \o <<Line("replaced", next_ip)>>,
                 !.run[r].pc = "probe_candidate"]

\* lines 287-296: the pool is loaded and the old IP moved to deprecated
Deprecate(deprecated, ip) == IF ip \in Range(deprecated) THEN deprecated ELSE Append(deprecated, ip)

RemoveFromReserve_mutant(reserve, ip) == reserve
RemoveFromReserve(reserve, ip) == IF ip \in Range(reserve) THEN ListRemove(reserve, ip) ELSE reserve

BeginFailover(w, r) ==
    LET lists == IF w.ip_file.exists
                 THEN [reserve |-> w.ip_file.reserve, deprecated |-> w.ip_file.deprecated,
                       alias |-> FALSE]
                 ELSE [reserve |-> w.clean, deprecated |-> <<>>, alias |-> TRUE]
        current_ip == w.run[r].current_ip
        w1 == [w EXCEPT !.run[r].alias = lists.alias,
                        !.run[r].loaded = Pool(lists.reserve, lists.deprecated),
                        !.run[r].ip_lists = [reserve |-> IF lists.alias THEN <<>> ELSE lists.reserve,
                                             deprecated |-> Deprecate(lists.deprecated, current_ip)],
                        !.run[r].notification_text = <<Line("current_dead", current_ip)>>,
                        !.run[r].new_ip_found = FALSE]
    IN SetRunReserve(w1, r, RemoveFromReserve(lists.reserve, current_ip))

\* the exchanges a probe of a run can have
RunExchanges ==
    { Exchange("fetch_error", <<>>),
      Exchange("results", <<[kind |-> "pings", pings |-> <<"OK">>],
                            [kind |-> "pings", pings |-> <<"TIMEOUT", "OK">>]>>),
      Exchange("results", <<[kind |-> "pings", pings |-> <<"OK">>],
                            [kind |-> "pings", pings |-> <<"TIMEOUT">>]>>),
      Exchange("results", <<[kind |-> "null", pings |-> <<>>],
                            [kind |-> "pings", pings |-> <<"TIMEOUT">>]>>) }

\* line 270: `if not record_details`
NotFound_mutant(record_details) == FALSE
NotFound(record_details) == ~record_details.exists

\* lines 275-278: the vantage of the run, from the record's config entry
check_location_mutant(record_list, zone_id, record_id) == "ir"
check_location(record_list, zone_id, record_id) ==
    LET i == FindConfig(record_list, zone_id, record_id)
    IN IF i # 0 THEN EntryGet(record_list[i], "location", "ir") ELSE "ir"

\* lines 325-326, 268-280: the run has acquired a permit, fetches the record
\* and its vantage, and awaits the probe of the current IP
Acquire(r, zone_id, record_id, user_id, job_id) ==
    LET record_details == get_record_details(zone_id, record_id)
        w == [World EXCEPT !.semaphore = acquire(semaphore),
                           !.run[r] = [IdleRun EXCEPT !.zone_id = zone_id, !.record_id = record_id,
                                                      !.user_id = user_id, !.job_id = job_id,
                                                      !.record_details = record_details]]
    IN /\ semaphore > 0
       /\ IF NotFound(record_details)
          THEN Commit(Return(w, r, "not_found"), r)
          ELSE Commit([w EXCEPT !.run[r].pc = "probe_current",
                                !.run[r].current_ip = record_details.content,
                                !.run[r].check_location =
                                    check_location(settings_file, zone_id, record_id)], r)

\* a call of run_smart_check_with_semaphore takes the next run slot
Started(r) ==
    /\ run[r].pc = "idle"
    /\ IF r = 1 THEN TRUE ELSE run[r - 1].pc # "idle"
    /\ NoneReturning
    /\ Events < EventLimit

\* line 325 with a free permit: acquire does not yield, the run goes on to its
\* first await; with none, the run waits at the semaphore
Begin(r, zone_id, record_id, user_id, job_id) ==
    /\ Started(r)
    /\ IF semaphore > 0 THEN Acquire(r, zone_id, record_id, user_id, job_id)
       ELSE /\ run' = [run EXCEPT ![r] = [IdleRun EXCEPT !.pc = "waiting",
                            !.zone_id = zone_id, !.record_id = record_id,
                            !.user_id = user_id, !.job_id = job_id]]
            /\ UNCHANGED <<pool_vars, dns, semaphore>>

\* line 325: a permit was released and a waiting run is woken with it
Woken(r) ==
    /\ run[r].pc = "waiting"
    /\ NoneReturning
    /\ Acquire(r, run[r].zone_id, run[r].record_id, run[r].user_id, run[r].job_id)
    /\ UNCHANGED <<drawn_vars, sched_vars, op_vars, booted, access_vars>>

\* scheduled_job_for_record (lines 328-335): the live job j fires; the job
\* queue runs at most one instance of a job at a time
JobFires(r, j) ==
    /\ booted
    /\ j \in DOMAIN jobs
    /\ \A q \in RunSlots : InFlight(run[q]) => run[q].job_id # jobs[j].id
    /\ Begin(r, jobs[j].zone_id, jobs[j].record_id, 0, jobs[j].id)
    /\ UNCHANGED <<drawn_vars, settings_file, jobs, next_job_id, disabled, op_vars, booted, access_vars>>

ScheduledJobFires(r) ==
    /\ \E j \in DOMAIN jobs : JobFires(r, j)
    /\ UNCHANGED fired

Send(w, r, chat_id, kind, text) ==
    [w EXCEPT !.run[r].msgs = Append(@, [chat_id |-> chat_id, kind |-> kind, text |-> text])]

\* lines 287-303 after an unhealthy current IP
Failover(w, r, failures) == Rotate(BeginFailover(w, r), r, failures)

MaxReserveLen == Cardinality(IPs)

\* lines 280-303: what the run does with the verdict on the current IP, up to
\* its next await or its return
AfterCurrentProbe_mutant(w0, r, verdict, failures) ==
    LET w == [w0 EXCEPT !.run[r].is_pinging = verdict.ok]
    IN IF w0.run[r].user_id # 0 THEN [w EXCEPT !.run[r].pc = "send_manual"]
       ELSE Failover(w, r, failures)
AfterCurrentProbe(w0, r, verdict, failures) ==
    LET w == [w0 EXCEPT !.run[r].is_pinging = verdict.ok,
                        !.run[r].report_text = IF w0.run[r].user_id # 0 THEN verdict.detail ELSE None]
    IN IF verdict.raised THEN Return(w0, r, "raised")
       ELSE IF w0.run[r].user_id # 0 THEN [w EXCEPT !.run[r].pc = "send_manual"]
       ELSE IF verdict.ok THEN Return(w, r, "healthy")
       ELSE Failover(w, r, failures)

\* the applies that can fail in that step: one per candidate it could take
ApplyFailuresAfterCurrent(w, r, verdict) ==
    IF verdict.raised \/ w.run[r].user_id # 0 \/ verdict.ok THEN 0
    ELSE Len(RunReserve(BeginFailover(w, r), r))

\* lines 280-303: the probe of the current IP returns
ProbeCurrentDone(r) ==
    /\ run[r].pc = "probe_current"
    /\ NoneReturning
    /\ \E exchange \in RunExchanges, failures \in 0..MaxReserveLen :
        LET verdict == check_ip_ping(exchange, run[r].check_location)
        IN /\ failures <= ApplyFailuresAfterCurrent(World, r, verdict)
           /\ Commit(AfterCurrentProbe(World, r, verdict, failures), r)
    /\ UNCHANGED <<drawn_vars, sched_vars, op_vars, booted, access_vars>>

\* lines 283-303: the manual result has been sent to the user
ManualResultSent(r) ==
    /\ run[r].pc = "send_manual"
    /\ NoneReturning
    /\ \E failures \in 0..MaxReserveLen :
        LET w == Send(World, r, run[r].user_id, "manual_result", <<Line(run[r].report_text, run[r].current_ip)>>)
        IN IF run[r].is_pinging THEN failures = 0 /\ Commit(Return(w, r, "healthy"), r)
           ELSE /\ failures <= Len(RunReserve(BeginFailover(w, r), r))
                /\ Commit(Failover(w, r, failures), r)
    /\ UNCHANGED <<drawn_vars, sched_vars, op_vars, booted, access_vars>>

\* lines 303-318: what the run does with the verdict on the candidate it has
\* just applied
AfterCandidateProbe_mutant(w, r, verdict, failures) ==
    LET next_ip == w.run[r].next_ip
        w1 == [w EXCEPT !.run[r].ip_lists.deprecated = Deprecate(@, next_ip)]
    IN IF verdict.raised THEN Return(w, r, "raised")
       ELSE IF verdict.ok
       THEN Epilogue([w1 EXCEPT !.run[r].notification_text = Append(@, Line("test_ok", next_ip)),
                                !.run[r].new_ip_found = TRUE], r)
       ELSE Rotate([w1 EXCEPT !.run[r].notification_text = Append(@, Line("test_failed", next_ip))],
                   r, failures)
AfterCandidateProbe(w, r, verdict, failures) ==
    LET next_ip == w.run[r].next_ip
    IN IF verdict.raised THEN Return(w, r, "raised")
       ELSE IF verdict.ok
       THEN Epilogue([w EXCEPT !.run[r].notification_text = Append(@, Line("test_ok", next_ip)),
                               !.run[r].new_ip_found = TRUE], r)
       ELSE Rotate([w EXCEPT !.run[r].notification_text = Append(@, Line("test_failed", next_ip)),
                             !.run[r].ip_lists.deprecated = Deprecate(@, next_ip)], r, failures)

ApplyFailuresAfterCandidate(w, r, verdict) ==
    IF verdict.raised \/ verdict.ok THEN 0 ELSE Len(RunReserve(w, r))

\* lines 303-318: the probe of the candidate just applied returns
ProbeCandidateDone(r) ==
    /\ run[r].pc = "probe_candidate"
    /\ NoneReturning
    /\ \E exchange \in RunExchanges, failures \in 0..MaxReserveLen :
        LET verdict == check_ip_ping(exchange, run[r].check_location)
        IN /\ failures <= ApplyFailuresAfterCandidate(World, r, verdict)
           /\ Commit(AfterCandidateProbe(World, r, verdict, failures), r)
    /\ UNCHANGED <<drawn_vars, sched_vars, op_vars, booted, access_vars>>

\* line 320
target_chat_id_mutant(user_id) == ADMIN_ID
target_chat_id(user_id) == IF user_id # 0 THEN user_id ELSE ADMIN_ID

\* lines 320-322: the report has been sent; the run returns
ReportSent(r) ==
    /\ run[r].pc = "send_report"
    /\ NoneReturning
    /\ LET w == Send(World, r, target_chat_id(run[r].user_id), "report", run[r].notification_text)
       IN Commit(Return(w, r, IF run[r].new_ip_found THEN "remediated" ELSE "exhausted"), r)
    /\ UNCHANGED <<drawn_vars, sched_vars, op_vars, booted, access_vars>>


\* the run has returned to its caller and its frame is dropped; the state in
\* which a run is "done" is the state at its return
Returned(r) ==
    /\ run[r].pc = "done"
    /\ run' = [run EXCEPT ![r] = ReturnedRun]
    /\ UNCHANGED <<drawn_vars, pool_vars, sched_vars, dns, semaphore, op_vars, booted, access_vars>>

\* ------------------------------------------------------- operator updates
\* An update is taken when the one before it has been handled.
UpdateReady == booted /\ ~UpdateInProgress /\ NoneReturning

\* the update is one more event
Handled == Events < EventLimit /\ ops' = ops + 1

\* the update wrote the pool while these runs were in progress
InterleaveAll(rs) ==
    [q \in DOMAIN rs |-> IF Admitted(rs[q]) THEN [rs[q] EXCEPT !.disturbed = TRUE] ELSE rs[q]]

\* callback "smart_add_ip_<record_id>" (lines 846-849)
SmartAddPrompt(u) ==
    /\ UpdateReady
    /\ Handled
    /\ user_state' = [user_state EXCEPT ![u].mode = "ADDING_RESERVE_IP"]
    /\ last_op' = [op |-> "smart_add", uid |-> u]
    /\ UNCHANGED <<drawn_vars, pool_vars, sched_vars, run_vars, booted, access_vars>>

\* A message text: address tokens separated by runs of delimiters (commas,
\* blanks, newlines), with or without delimiters before the first and after the
\* last token.
Text(leading, tokens, trailing) == [leading |-> leading, tokens |-> tokens, trailing |-> trailing]

\* re.split(r'[,\s\n]+', text): the tokens, with an empty string where the text
\* starts or ends with a delimiter
re_split(text) ==
    (IF text.leading THEN <<"">> ELSE <<>>) \o text.tokens \o (IF text.trailing THEN <<"">> ELSE <<>>)

\* line 631: the non-empty pieces
new_ips_of(text) == SelectSeq(re_split(text), LAMBDA ip : ip # "")

\* lines 636-640: the loop over new_ips
AppendNew_mutant(ip_lists, new_ips) ==
    [ip_lists EXCEPT
        !.reserve = @ \o SelectSeq(new_ips, LAMBDA ip : ip \notin Range(ip_lists.reserve)),
        !.added_count = Len(SelectSeq(new_ips, LAMBDA ip : ip \notin Range(ip_lists.reserve)))]
RECURSIVE AppendNew(_, _)
AppendNew(ip_lists, new_ips) ==
    IF new_ips = <<>> THEN ip_lists
    ELSE LET ip == Head(new_ips)
         IN IF ip \notin Range(ip_lists.reserve) /\ ip \notin Range(ip_lists.deprecated)
            THEN AppendNew([ip_lists EXCEPT !.reserve = Append(@, ip),
                                            !.added_count = @ + 1], Tail(new_ips))
            ELSE AppendNew(ip_lists, Tail(new_ips))

\* handle_message in mode ADDING_RESERVE_IP (lines 629-645)
AddReserveMessage(u, text) ==
    /\ UpdateReady
    /\ Handled
    /\ user_state[u].mode = "ADDING_RESERVE_IP"
    /\ LET new_ips == new_ips_of(text)
           loaded == load_ip_lists
           ip_lists == AppendNew([reserve |-> loaded.reserve, deprecated |-> loaded.deprecated,
                                  added_count |-> 0], new_ips)
       IN IF new_ips = <<>>
          THEN /\ last_op' = [op |-> "add_reserve", uid |-> u, text |-> text,
                              found |-> Pool(loaded.reserve, loaded.deprecated),
                              reply |-> "invalid_input", added_count |-> 0]
               /\ UNCHANGED <<pool_vars, run>>
          ELSE /\ ip_file' = Pool(ip_lists.reserve, ip_lists.deprecated)
               /\ clean_ip_source' = IF loaded.alias THEN ip_lists.reserve ELSE clean_ip_source
               /\ run' = InterleaveAll(run)
               /\ last_op' = [op |-> "add_reserve", uid |-> u, text |-> text,
                              found |-> Pool(loaded.reserve, loaded.deprecated),
                              reply |-> "added", added_count |-> ip_lists.added_count]
    /\ UNCHANGED <<sched_vars, dns, semaphore, user_state, booted, access_vars>>

\* ip_lists["deprecated"] = [], line 863
Cleared_mutant(ip_lists) == Pool(ip_lists.reserve \o ip_lists.deprecated, <<>>)
Cleared(ip_lists) == Pool(ip_lists.reserve, <<>>)

\* callback "smart_clear_deprecated_<record_id>" (lines 861-866)
ClearDeprecated(u) ==
    /\ UpdateReady
    /\ Handled
    /\ ip_file' = Cleared(load_ip_lists)
    /\ run' = InterleaveAll(run)
    /\ last_op' = [op |-> "clear_deprecated", uid |-> u]
    /\ UNCHANGED <<drawn_vars, clean_ip_source, sched_vars, dns, semaphore, user_state, booted, access_vars>>

\* callback "smart_run_manual_<record_id>" (lines 867-871)
ManualRun(r, u, record_id) ==
    /\ UpdateReady
    /\ Begin(r, user_state[u].zone_id, record_id, u, 0)
    /\ UNCHANGED <<drawn_vars, sched_vars, op_vars, booted, access_vars>>

\* ------------------------------------------------------------------ startup
\* the job's name f"smart_check_{zone_id}_{record_id}"
job_name(zone_id, record_id) == <<"smart_check", zone_id, record_id>>

\* run_repeating(scheduled_job_for_record, interval, first=10, name, data)
Job(id, zone_id, record_id, interval) ==
    [id |-> id, name |-> job_name(zone_id, record_id), zone_id |-> zone_id,
     record_id |-> record_id, interval |-> interval]

\* main (lines 991-1006): one repeating job per entry with an interval > 0
RegisterAll_mutant(record_list, first_id) ==
    [i \in DOMAIN record_list |->
        Job(first_id + i - 1, record_list[i].zone_id, record_list[i].record_id,
            EntryGet(record_list[i], "interval", 0))]
RECURSIVE RegisterAll(_, _)
RegisterAll(record_list, first_id) ==
    IF record_list = <<>> THEN <<>>
    ELSE LET record_config == Head(record_list)
             interval == EntryGet(record_config, "interval", 0)
         IN IF interval > 0
            THEN <<Job(first_id, record_config.zone_id, record_config.record_id, interval)>>
                 \o RegisterAll(Tail(record_list), first_id + 1)
            ELSE RegisterAll(Tail(record_list), first_id)

Main ==
    /\ ~booted
    /\ booted' = TRUE
    /\ jobs' = RegisterAll(settings_file, next_job_id)
    /\ next_job_id' = next_job_id + Len(jobs')
    /\ semaphore' = SEMAPHORE_PERMITS
    /\ UNCHANGED <<drawn_vars, pool_vars, settings_file, disabled, fired, dns, run, op_vars, access_vars>>

\* ----------------------------------------------------- the users and zones
\* the zones the provider holds (lines 20-23)
MOCKED_ZONES == {"zone1", "zone2"}

\* The ids as text: in callback data, in a message, and as keys of users.json.
\* int() accepts a number written with a leading zero; str() never writes one.
IdTexts == {"123456789", "123456790", "0123456790"}
is_int(text) == text \in IdTexts
int(text) == IF text = "123456789" THEN ADMIN_ID ELSE OTHER_USER
str(user_id) == IF user_id = ADMIN_ID THEN "123456789" ELSE "123456790"

\* a value of users.json's map: "access" is either "all" or a list of zone ids
Access(all, zone_ids) == [all |-> all, access |-> zone_ids]
EmptyMap == [k \in {} |-> Access(FALSE, <<>>)]
Put(map, key, value) == [k \in DOMAIN map \cup {key} |-> IF k = key THEN value ELSE map[k]]
Del(map, key) == [k \in DOMAIN map \ {key} |-> map[k]]

\* users.json: absent, in the old format ({"authorized_ids": [...]}) or in the
\* current one ({"users": {...}})
NoUsersFile == [format |-> "absent", authorized_ids |-> <<>>, users |-> EmptyMap]
LegacyUsers(authorized_ids) ==
    [format |-> "authorized_ids", authorized_ids |-> authorized_ids, users |-> EmptyMap]
UsersDoc(users) == [format |-> "users", authorized_ids |-> <<>>, users |-> users]

\* sorted(list(set(blocked_list)))
RECURSIVE Sorted(_)
Sorted(S) ==
    IF S = {} THEN <<>>
    ELSE LET least == CHOOSE x \in S : \A y \in S : x <= y
         IN <<least>> \o Sorted(S \ {least})

\* load_users (lines 156-167): the map it returns
load_users(file) ==
    LET migrated_users ==
            [k \in {str(uid) : uid \in Range(file.authorized_ids) \ {ADMIN_ID}} \cup {str(ADMIN_ID)} |->
                IF k = str(ADMIN_ID) THEN Access(TRUE, <<>>) ELSE Access(FALSE, <<>>)]
        data == IF file.format = "authorized_ids" THEN migrated_users ELSE file.users
    IN IF str(ADMIN_ID) \notin DOMAIN data
       THEN Put(data, str(ADMIN_ID), Access(TRUE, <<>>))
       ELSE data

\* load_users: the document it leaves (the saves of lines 162 and 166)
load_users_saved(file) ==
    IF file.format = "authorized_ids" \/ str(ADMIN_ID) \notin DOMAIN file.users
    THEN UsersDoc(load_users(file))
    ELSE file

\* The handlers below work on w, the documents and the provider as the handler
\* sees them: w.users_file, w.blocked_file, w.requests_file, w.zones, w.dns,
\* w.user_state, and w.calls, the provider calls the handler made.
Loaded(w) == [w EXCEPT !.users_file = load_users_saved(@)]

\* save_users (lines 169-170)
save_users(w, users_dict) == [w EXCEPT !.users_file = UsersDoc(users_dict)]

\* is_user_authorized (lines 172-174), on the loaded map
is_user_authorized(w, user_id) == str(user_id) \in DOMAIN load_users(w.users_file)

\* save_blocked_users (lines 209-210)
save_blocked_users(w, blocked_list) == [w EXCEPT !.blocked_file = Sorted(Range(blocked_list))]

\* is_user_blocked (lines 212-213)
is_user_blocked(w, user_id) == user_id \in Range(w.blocked_file)

\* unblock_user (lines 225-231)
unblock_user(w, user_id) ==
    IF user_id \in Range(w.blocked_file)
    THEN save_blocked_users(w, ListRemove(w.blocked_file, user_id))
    ELSE w

\* add_user (lines 186-194)
add_user_mutant(w, user_id) ==
    LET users == load_users(w.users_file) IN
    IF str(user_id) \notin DOMAIN users
    THEN save_users(Loaded(w), Put(users, str(user_id), Access(FALSE, <<>>)))
    ELSE Loaded(w)
add_user(w, user_id) ==
    LET users == load_users(w.users_file) IN
    IF str(user_id) \notin DOMAIN users
    THEN unblock_user(save_users(Loaded(w), Put(users, str(user_id), Access(FALSE, <<>>))), user_id)
    ELSE Loaded(w)

\* remove_user (lines 196-204)
remove_user_mutant(w, user_id) ==
    LET users == load_users(w.users_file) IN
    IF str(user_id) \in DOMAIN users
    THEN save_users(Loaded(w), Del(users, str(user_id)))
    ELSE Loaded(w)
remove_user(w, user_id) ==
    IF user_id = ADMIN_ID THEN w
    ELSE LET users == load_users(w.users_file) IN
         IF str(user_id) \in DOMAIN users
         THEN save_users(Loaded(w), Del(users, str(user_id)))
         ELSE Loaded(w)

\* block_user (lines 215-223)
block_user(w, user_id) ==
    IF user_id = ADMIN_ID THEN w
    ELSE IF user_id \notin Range(w.blocked_file)
         THEN remove_user(save_blocked_users(w, Append(w.blocked_file, user_id)), user_id)
         ELSE w

\* add_request (lines 239-246); a request is kept by the id of its user
add_request(w, user) ==
    IF user.id \notin {r.id : r \in Range(w.requests_file)} /\ ~is_user_authorized(w, user.id)
    THEN [Loaded(w) EXCEPT !.requests_file = Append(@, user)]
    ELSE w

\* remove_request (lines 248-255)
remove_request(w, user_id) ==
    [w EXCEPT !.requests_file = SelectSeq(@, LAMBDA r : r.id # user_id)]

\* reset_user_state (lines 256-264) without keep_zone: the entry is popped
reset_user_state(w, uid) ==
    [w EXCEPT !.user_state[uid] = [zone_id |-> None, mode |-> "NONE"]]

\* delete_zone (lines 62-67): the zone and its records go
delete_zone(w, zone_id) ==
    IF zone_id \in w.zones
    THEN [w EXCEPT !.zones = @ \ {zone_id},
                   !.dns = [k \in DOMAIN @ |-> IF k[1] = zone_id THEN NoRecord ELSE @[k]],
                   !.calls = @ \cup {"delete_zone"}]
    ELSE [w EXCEPT !.calls = @ \cup {"delete_zone"}]

\* Callback data is kept as the pieces between its underscores, data.split('_').
\* data.startswith(prefix) for a prefix that ends with an underscore: the
\* pieces of the prefix, and at least one more
startswith(data, prefix) ==
    /\ Len(data) > Len(prefix)
    /\ SubSeq(data, 1, Len(prefix)) = prefix

\* line 733: the prefixes of the administrator's actions; add_user_prompt is
\* the one without a closing underscore
AdminPrefixes ==
    {<<"manage">>, <<"delete", "user">>, <<"block", "user">>, <<"unblock", "user">>,
     <<"access">>, <<"toggle", "access">>}
is_admin_action(data) ==
    \/ \E prefix \in AdminPrefixes : startswith(data, prefix)
    \/ Len(data) >= 3 /\ SubSeq(data, 1, 3) = <<"add", "user", "prompt">>

\* lines 737-791: the administrator's actions
admin_action(w, uid, data) ==
    IF data[1] = "manage" THEN w
    ELSE IF startswith(data, <<"toggle", "access">>)
    THEN LET target_user_id_str == data[3]
             zone_id_to_toggle == data[4]
             users == load_users(w.users_file)
         IN IF target_user_id_str \in DOMAIN users /\ ~users[target_user_id_str].all
            THEN LET access_list == users[target_user_id_str].access
                     toggled == IF zone_id_to_toggle \in Range(access_list)
                                THEN ListRemove(access_list, zone_id_to_toggle)
                                ELSE Append(access_list, zone_id_to_toggle)
                 IN save_users(w, [users EXCEPT ![target_user_id_str].access = toggled])
            ELSE w
    ELSE IF startswith(data, <<"delete", "user">>)
    THEN IF is_int(data[3]) THEN remove_user(w, int(data[3])) ELSE w
    ELSE IF startswith(data, <<"block", "user">>)
    THEN IF is_int(data[3]) THEN block_user(w, int(data[3])) ELSE w
    ELSE IF startswith(data, <<"unblock", "user">>)
    THEN IF is_int(data[3]) THEN unblock_user(w, int(data[3])) ELSE w
    ELSE IF startswith(data, <<"access">>)
    THEN IF ~is_int(data[3]) THEN w
         ELSE LET action == data[2]
                  target_user_id == int(data[3])
              IN remove_request(
                    IF action = "approve" THEN add_user(w, target_user_id)
                    ELSE IF action = "block" THEN block_user(w, target_user_id)
                    ELSE w,
                    target_user_id)
    ELSE IF data = <<"add", "user", "prompt">>
    THEN [w EXCEPT !.user_state[uid].mode = "ADDING_USER"]
    ELSE w

\* lines 799-976: the prefixes of the general actions, in the order of the chain
GeneralPrefixes ==
    <<<<"zone">>, <<"record", "settings">>, <<"smart">>, <<"set", "schedule">>,
      <<"clone", "record">>, <<"toggle", "proxy">>, <<"editip">>, <<"edittll">>,
      <<"update", "ttl">>, <<"select", "type">>, <<"select", "ttl">>,
      <<"select", "proxied">>, <<"confirm", "delete">>, <<"delete", "zone">>,
      <<"delete", "record">>>>

\* the branch of the chain the data takes: the first prefix it starts with
general_branch(data) ==
    IF data \in {<<"back", "to", "main">>, <<"refresh", "domains">>} THEN <<"back", "to", "main">>
    ELSE IF data \in {<<"delete", "domain", "menu">>, <<"show", "help">>, <<"show", "logs">>}
    THEN data
    ELSE LET matching == {i \in DOMAIN GeneralPrefixes : startswith(data, GeneralPrefixes[i])}
         IN IF matching = {} THEN <<>>
            ELSE GeneralPrefixes[CHOOSE i \in matching : \A j \in matching : i <= j]

\* lines 793-970: noop, the menus, and the deletion of a zone
general_action(w, uid, data) ==
    IF data = <<"noop">> THEN w
    ELSE IF general_branch(data) = <<"back", "to", "main">> THEN reset_user_state(w, uid)
    ELSE IF general_branch(data) = <<"delete", "zone">>
    THEN LET zone_to_delete_id == data[Len(data)]
         IN reset_user_state(delete_zone(w, zone_to_delete_id), uid)
    ELSE w

\* handle_callback (lines 716-976), for the data of the menus of the users and
\* of the zones
handle_callback(w, uid, data) ==
    IF is_user_blocked(w, uid) THEN w
    ELSE IF ~is_user_authorized(w, uid)
    THEN IF data = <<"request", "access">>
         THEN add_request(Loaded(w), [id |-> uid])
         ELSE Loaded(w)
    ELSE IF is_admin_action(data)
    THEN IF uid # ADMIN_ID THEN Loaded(w) ELSE admin_action(Loaded(w), uid, data)
    ELSE general_action(Loaded(w), uid, data)

\* the state the users and zones start in where they are not what is observed:
\* the administrator and one operator with zone1
InitAccess ==
    /\ users_file = UsersDoc(Put(Put(EmptyMap, str(ADMIN_ID), Access(TRUE, <<>>)),
                                 str(OTHER_USER), Access(FALSE, <<"zone1">>)))
    /\ blocked_file = <<>>
    /\ requests_file = <<>>
    /\ zones = MOCKED_ZONES

\* ------------------------------------------------------------ the scheduler
\* the entry set_schedule makes for a record that has none (line 887)
Entry_mutant(zone_id, record_id, interval, location) ==
    [zone_id |-> zone_id, record_id |-> record_id, interval |-> interval, location |-> "de"]
Entry(zone_id, record_id, interval, location) ==
    [zone_id |-> zone_id, record_id |-> record_id, interval |-> interval, location |-> location]

\* the entry the location toggle makes for a record that has none (line 840)
LocationEntry_mutant(zone_id, record_id, location) == Entry(zone_id, record_id, 1800, location)
LocationEntry(zone_id, record_id, location) ==
    [zone_id |-> zone_id, record_id |-> record_id, location |-> location]

\* record_config[key] = value
EntrySet_mutant(entry, key, value) == entry
EntrySet(entry, key, value) ==
    [k \in DOMAIN entry \cup {key} |-> IF k = key THEN value ELSE entry[k]]

\* callback "smart_toggle_loc_<record_id>" (lines 834-843)
ToggleLocation(u, record_id) ==
    LET zone_id == user_state[u].zone_id
        record_list == settings_file
        i == FindConfig(record_list, zone_id, record_id)
    IN /\ UpdateReady
       /\ Handled
       /\ settings_file' =
            IF i = 0 THEN Append(record_list, LocationEntry(zone_id, record_id, "de"))
            ELSE [record_list EXCEPT ![i] = EntrySet(@, "location",
                    IF EntryGet(@, "location", "ir") = "ir" THEN "de" ELSE "ir")]
       /\ last_op' = [op |-> "toggle_loc", uid |-> u, record_id |-> record_id]
       /\ UNCHANGED <<drawn_vars, pool_vars, jobs, next_job_id, disabled, fired, run_vars, user_state, booted, access_vars>>

\* lines 881-882: every job of that name is removed from the queue
get_jobs_by_name(queue, name) == SelectSeq(queue, LAMBDA job : job.name = name)

schedule_removal_mutant(queue, name) == queue
schedule_removal(queue, name) == SelectSeq(queue, LAMBDA job : job.name # name)

\* record_list.remove(record_config), line 893
remove_config_mutant(record_list, i) == record_list
remove_config(record_list, i) ==
    SubSeq(record_list, 1, i - 1) \o SubSeq(record_list, i + 1, Len(record_list))

\* job.schedule_removal() (line 882) takes the job out of the queue; a run the
\* job has started is a coroutine of its own and goes on
running_after_removal_mutant(rs, name) ==
    [q \in DOMAIN rs |->
        IF InFlight(rs[q]) /\ rs[q].user_id = 0 /\ job_name(rs[q].zone_id, rs[q].record_id) = name
        THEN ReturnedRun ELSE rs[q]]
running_after_removal(rs, name) == rs

\* callback "set_schedule_<record_id>_<interval>" (lines 874-894), up to the
\* await of query.answer: the jobs are replaced at once, the list is edited in
\* memory
SetSchedule(u, record_id, interval) ==
    LET zone_id == user_state[u].zone_id
        record_list == settings_file
        i == FindConfig(record_list, zone_id, record_id)
        name == job_name(zone_id, record_id)
        removed == schedule_removal(jobs, name)
        edited == IF interval > 0
                  THEN IF i = 0 THEN Append(record_list, Entry(zone_id, record_id, interval, "ir"))
                       ELSE [record_list EXCEPT ![i] = EntrySet(@, "interval", interval)]
                  ELSE IF i # 0 THEN remove_config(record_list, i) ELSE record_list
    IN /\ UpdateReady
       /\ Handled
       /\ jobs' = IF interval > 0
                  THEN Append(removed, Job(next_job_id, zone_id, record_id, interval))
                  ELSE removed
       /\ next_job_id' = IF interval > 0 THEN next_job_id + 1 ELSE next_job_id
       /\ disabled' = IF interval > 0 THEN disabled \ {<<zone_id, record_id>>}
                      ELSE disabled \cup {<<zone_id, record_id>>}
       /\ last_op' = [op |-> "set_schedule", uid |-> u, zone_id |-> zone_id,
                      record_id |-> record_id, interval |-> interval,
                      record_list |-> edited, pc |-> "answer"]
       /\ run' = running_after_removal(run, name)
       /\ UNCHANGED <<drawn_vars, pool_vars, settings_file, fired, dns, semaphore, user_state, booted, access_vars>>

\* line 896: the answer has been sent, the edited list is saved
SetScheduleSave ==
    /\ SavePending
    /\ NoneReturning
    /\ settings_file' = last_op.record_list
    /\ last_op' = [last_op EXCEPT !.pc = "saved"]
    /\ UNCHANGED <<drawn_vars, pool_vars, jobs, next_job_id, disabled, fired, run_vars, user_state, ops, booted, access_vars>>

\* ------------------------------------------------------------ initial state
MOCKED_RECORDS ==
    [k \in Keys |->
        IF k[2] = "rec1" THEN DnsRecord("test.example.com", "A", "1.1.1.1", 1, FALSE)
        ELSE DnsRecord("www.example.com", "A", "2.2.2.2", 120, TRUE)]

\* rec1 is checked every half hour from "ir"; rec2 has a vantage and no schedule
InitSettings == <<Entry("zone1", "rec1", 1800, "ir"), LocationEntry("zone1", "rec2", "de")>>

InitRest ==
    /\ probe_exchange = Exchange("results", <<>>)
    /\ probe_location = "ir"
    /\ probe_verdict = NoVerdict
    /\ clean_ip_source = CLEAN_IP_SOURCE
    /\ jobs = <<>>
    /\ next_job_id = 1
    /\ disabled = {}
    /\ fired = 0
    /\ semaphore = 0
    \* the operators have zone1 open
    /\ user_state = [u \in Users |-> [zone_id |-> "zone1", mode |-> "NONE"]]
    /\ booted = FALSE
    /\ InitAccess
    /\ ops = 0
    /\ last_op = [op |-> None]

\* the provider holds the two records; the behaviour has MaxEvents run slots
InitRuns ==
    /\ dns = MOCKED_RECORDS
    /\ run = [r \in RunIds |-> IdleRun]

\* the persisted pools the runs are observed from
InitPools ==
    { Pool(<<"8.8.8.8", "1.1.1.1">>, <<"1.0.0.1">>),
      Pool(<<"8.8.4.4">>, <<>>) }

Init ==
    /\ ip_file \in InitPools
    /\ settings_file = InitSettings
    /\ inbox = <<>>
    /\ InitRuns
    /\ InitRest

\* the messages an operator sends while the failover runs are observed
MainOperators == {OTHER_USER}

MainTexts == { Text(FALSE, <<"1.1.1.1", "8.8.8.8">>, TRUE) }

Next ==
    \/ Main
    \/ \E u \in MainOperators : SmartAddPrompt(u)
    \/ \E u \in MainOperators, text \in MainTexts : AddReserveMessage(u, text) /\ UNCHANGED drawn_vars
    \/ \E u \in MainOperators : ClearDeprecated(u)
    \/ \E r \in RunIds, u \in MainOperators, record_id \in RecordIds : ManualRun(r, u, record_id)
    \/ \E r \in RunIds : ScheduledJobFires(r)
    \/ \E r \in RunIds : ProbeCurrentDone(r)
    \/ \E r \in RunIds : ManualResultSent(r)
    \/ \E r \in RunIds : ProbeCandidateDone(r)
    \/ \E r \in RunIds : ReportSent(r)
    \/ \E r \in RunIds : Returned(r)

Spec == Init /\ [][Next]_vars

\* ------------------------------------------------ properties of the runs
\* what a run's report says it did
LinesOf(rn, kinds) == SelectSeq(rn.notification_text, LAMBDA l : l.line \in kinds)
IpsOf(lines) == [i \in DOMAIN lines |-> lines[i].ip]

\* the candidates the run has taken from the head of its reserve
Popped(rn) == Range(IpsOf(LinesOf(rn, {"apply_failed", "replaced"})))
\* the candidates it has written to the record, in order
Applied(rn) == IpsOf(LinesOf(rn, {"replaced"}))
\* the candidates whose probe it has seen, in order
Probed(rn) == IpsOf(LinesOf(rn, {"test_failed", "test_ok"}))

Content(rn) == dns[<<rn.zone_id, rn.record_id>>].content

\* the run is at its return
AtReturn(rn, outcome) == rn.pc = "done" /\ rn.outcome = outcome

\* C1: starting from a persisted pool whose lists are disjoint, whatever runs,
\* add-reserve messages and clear-deprecated callbacks interleave, no address
\* is in the persisted reserve and in the persisted deprecated list at once.
C1_PoolDisjoint == Range(ip_file.reserve) \cap Range(ip_file.deprecated) = {}

\* a run has saved the pool it loaded before an operator's add wrote the document
C1_Witness ==
    /\ last_op.op = "add_reserve"
    /\ last_op.reply = "added"
    /\ \E r \in RunIds :
        /\ run[r].pc = "done"
        /\ run[r].outcome \in {"remediated", "exhausted"}
        /\ run[r].disturbed
        /\ ip_file = Pool(run[r].ip_lists.reserve, run[r].ip_lists.deprecated)

\* C2: two runs in progress at the same time never take, and never apply, the
\* same reserve candidate.
C2_NoDoublePop ==
    \A r, q \in RunIds :
        (r # q /\ run[r].pc \notin {"idle", "returned"} /\ run[q].pc \notin {"idle", "returned"})
            => Popped(run[r]) \cap Popped(run[q]) = {}

\* C3: by failover runs alone (no operator update has been handled), an address
\* of the persisted deprecated list is never put on the persisted reserve list.
C3_NoRehabilitation ==
    [][ops' = 0 =>
        \A x \in IPs : x \in Range(ip_file.deprecated) => x \notin Range(ip_file'.reserve)]_vars

\* a run nothing interfered with: no one else wrote the pool or its record
\* while it was in progress
Uninterrupted(rn) == ~rn.disturbed /\ ~rn.clobbered

\* the run found the current IP unhealthy, every apply succeeded, and the
\* k-th candidate it probed was the first healthy one
Remediated(rn) == AtReturn(rn, "remediated") /\ LinesOf(rn, {"apply_failed"}) = <<>>

\* what C4 states of a run whose reserve at load time was c
C4_Result(rn, c) ==
    LET k == Len(Probed(rn))
    IN /\ Content(rn) = c[k]
       /\ Range(ip_file.deprecated) =
            Range(rn.loaded.deprecated) \cup {rn.current_ip} \cup Range(SubSeq(c, 1, k - 1))
       /\ ip_file.reserve = SubSeq(c, k + 1, Len(c))

\* C4 as stated: an uninterrupted run that tried the reserve [c1..cn] in
\* order, c1..c(k-1) unhealthy and ck healthy, leaves content ck, deprecated =
\* previous + old IP + c1..c(k-1), and reserve [c(k+1)..cn].
C4_ResultAsStated ==
    \A r \in RunIds :
        LET rn == run[r]
            k == Len(Probed(rn))
        IN (Remediated(rn) /\ Uninterrupted(rn) /\ k <= Len(rn.loaded.reserve)
                /\ Probed(rn) = SubSeq(rn.loaded.reserve, 1, k))
            => C4_Result(rn, rn.loaded.reserve)

\* C4 (amended): the same, where [c1..cn] is the loaded reserve without the
\* old IP, which the run removes before it takes candidates.
C4_ResultOfRun ==
    \A r \in RunIds :
        LET rn == run[r]
            k == Len(Probed(rn))
            c == IF rn.current_ip \in Range(rn.loaded.reserve)
                 THEN ListRemove(rn.loaded.reserve, rn.current_ip) ELSE rn.loaded.reserve
        IN (Remediated(rn) /\ Uninterrupted(rn))
            => /\ k >= 1 /\ k <= Len(c)
               /\ Probed(rn) = SubSeq(c, 1, k)
               /\ C4_Result(rn, c)

\* the second candidate was the healthy one, candidates remain, and the
\* deprecated list was not empty before
C4_Witness ==
    \E r \in RunIds :
        /\ Remediated(run[r]) /\ Uninterrupted(run[r])
        /\ Len(Probed(run[r])) = 2
        /\ ip_file.reserve # <<>>

\* the run found the current IP unhealthy and no candidate healthy
Exhausted(rn) == AtReturn(rn, "exhausted")

ReportHasWarning(rn) ==
    \E i \in DOMAIN rn.msgs :
        /\ rn.msgs[i].kind = "report"
        /\ \E j \in DOMAIN rn.msgs[i].text : rn.msgs[i].text[j].line = "warning"

LastApplied(rn) == IF Applied(rn) = <<>> THEN rn.current_ip ELSE Applied(rn)[Len(Applied(rn))]

ProbedAndFailed(location) ==
    check_ip_ping(Exchange("results", <<[kind |-> "pings", pings |-> <<"TIMEOUT">>]>>), location)

\* the state without the diagnostic text of run r's probe of the current IP
Blind(w, r) == [w EXCEPT !.run[r].report_text = None]

\* C7: at whatever step the probe service call fails, check_ip_ping returns a
\* failure verdict with a diagnostic and does not raise, and the run continues
\* from it exactly as from the verdict of a probe that ran and failed.
C7_ProbeErrorsDowngraded ==
    /\ \A step \in ErrorSteps, location \in Locations :
        LET verdict == check_ip_ping(Exchange(step, <<>>), location)
        IN ~verdict.raised /\ ~verdict.ok /\ verdict.detail \notin {None, "count"}
    /\ \A r \in RunIds, step \in ErrorSteps :
        LET verdict == check_ip_ping(Exchange(step, <<>>), run[r].check_location)
            failed == ProbedAndFailed(run[r].check_location)
        IN /\ run[r].pc = "probe_current" =>
                \A failures \in 0..ApplyFailuresAfterCurrent(World, r, failed) :
                    Blind(AfterCurrentProbe(World, r, verdict, failures), r)
                        = Blind(AfterCurrentProbe(World, r, failed, failures), r)
           /\ run[r].pc = "probe_candidate" =>
                \A failures \in 0..ApplyFailuresAfterCandidate(World, r, failed) :
                    AfterCandidateProbe(World, r, verdict, failures)
                        = AfterCandidateProbe(World, r, failed, failures)

\* a manual run whose probe of the current IP failed in the service call has
\* deprecated that IP and applied a candidate
C7_Witness ==
    \E r \in RunIds :
        /\ run[r].pc = "probe_candidate"
        /\ run[r].report_text = "api_error"
        /\ ~run[r].is_pinging
        /\ run[r].current_ip \in Range(run[r].ip_lists.deprecated)
        /\ Content(run[r]) = run[r].next_ip

\* run r takes, in this step, the healthy verdict on its current IP: the
\* probe returns with it, or (manual) the result message has been sent
HealthyStep(r) ==
    \/ run[r].pc = "probe_current" /\ run'[r].pc # "probe_current" /\ run'[r].is_pinging
    \/ run[r].pc = "send_manual" /\ run'[r].pc # "send_manual" /\ run[r].is_pinging

\* C14: when the probe of the current IP is healthy, the run, manual or
\* scheduled, calls no DNS update and writes nothing to the pool: its steps
\* leave the provider's records, the pool document and the shared default list
\* unchanged, it takes no candidate, and it ends there.
C14_HealthyChangesNothing ==
    [][\A r \in RunIds :
        HealthyStep(r) =>
            /\ UNCHANGED <<dns, pool_vars>>
            /\ run'[r].notification_text = <<>>
            /\ run'[r].next_ip = None
            /\ run'[r].pc \in {"send_manual", "done"}
            /\ run'[r].pc = "done" => run'[r].outcome = "healthy"]_vars

\* a manual and a scheduled run have both found their IP healthy, after an
\* earlier run changed a record and the pool
C14_Witness ==
    /\ dns # MOCKED_RECORDS
    /\ ip_file \notin InitPools
    /\ \E r, q \in RunIds :
        /\ AtReturn(run[r], "healthy") /\ run[r].user_id = 0
        /\ run[q].pc = "send_manual" /\ run[q].is_pinging

\* C16: a scheduled run sends nothing when the current IP is healthy and,
\* when it is not, one message, its report, to the administrator's chat; every
\* message of a manual run goes to the user who started it.
C16_ReportRouting ==
    \A r \in RunIds :
        /\ \A i \in DOMAIN run[r].msgs :
            run[r].msgs[i].chat_id = IF run[r].user_id # 0 THEN run[r].user_id ELSE ADMIN_ID
        /\ (run[r].user_id = 0 /\ InFlight(run[r]) /\ run[r].pc # "send_report") => run[r].msgs = <<>>
        /\ (run[r].user_id = 0 /\ AtReturn(run[r], "healthy")) => run[r].msgs = <<>>
        /\ (run[r].user_id = 0 /\ run[r].pc = "done" /\ run[r].outcome \in {"remediated", "exhausted"})
                => /\ Len(run[r].msgs) = 1
                   /\ run[r].msgs[1].kind = "report"
                   /\ run[r].msgs[1].text # <<>>

\* a scheduled run has sent its report to the administrator while a manual run
\* of another user, which has sent that user its result, is in progress
C16_Witness ==
    \E r, q \in RunIds :
        /\ run[r].user_id = 0 /\ run[r].pc = "done"
        /\ SelectSeq(run[r].msgs, LAMBDA msg : msg.chat_id = ADMIN_ID) # <<>>
        /\ run[q].user_id = OTHER_USER /\ run[q].pc = "probe_candidate"
        /\ SelectSeq(run[q].msgs, LAMBDA msg : msg.chat_id = OTHER_USER) # <<>>

\* run r writes a candidate to its record in this step
Applies(r) ==
    /\ run'[r].pc = "probe_candidate"
    /\ run[r].pc # "probe_candidate" \/ run'[r].next_ip # run[r].next_ip

\* C18: when a run applies a candidate it took from reserve, the persisted
\* reserve list no longer holds that candidate.
C18_PopDurable ==
    [][\A r \in RunIds :
        Applies(r) => run'[r].next_ip \notin Range(ip_file'.reserve)]_vars

\* C20: by failover runs alone (no operator update has been handled), a run
\* that found its current IP unhealthy ends, remediated or exhausted, with that
\* IP once in the persisted deprecated list and not in the persisted reserve.
C20_OldIpDeprecated ==
    ops = 0 =>
        \A r \in RunIds :
            (run[r].pc = "done" /\ run[r].outcome \in {"remediated", "exhausted"}) =>
                /\ Cardinality({i \in DOMAIN ip_file.deprecated :
                                    ip_file.deprecated[i] = run[r].current_ip}) = 1
                /\ run[r].current_ip \notin Range(ip_file.reserve)

\* the candidates whose update failed, in order
FailedToApply(rn) == IpsOf(LinesOf(rn, {"apply_failed"}))

\* C22: a failed update of a candidate does not end the run: the candidate gets
\* a failure line, is not probed and is not put on deprecated, and the next
\* line of the report is about the next candidate, or is the warning that the
\* reserve is exhausted.
C22_ApplyFailureRecoverable ==
    \A r \in RunIds :
        LET rn == run[r]
            text == rn.notification_text
        IN /\ \A i \in DOMAIN text :
                text[i].line = "apply_failed" =>
                    /\ i < Len(text)
                    /\ text[i + 1].line \in {"apply_failed", "replaced", "warning"}
                    /\ text[i + 1].line = "warning" => rn.ip_lists.reserve = <<>>
                    /\ text[i].ip \notin Range(Probed(rn))
                    /\ text[i].ip \notin Range(rn.ip_lists.deprecated)
                    /\ (rn.pc \in {"send_report", "done"} /\ ~rn.disturbed)
                            => text[i].ip \notin Range(ip_file.deprecated)
           /\ (rn.pc = "done" /\ FailedToApply(rn) # <<>>)
                    => rn.outcome \in {"remediated", "exhausted"}

\* a run whose first update failed went on to the next candidate, found it
\* healthy and sent its report
C22_Witness ==
    \E r \in RunIds :
        /\ AtReturn(run[r], "remediated")
        /\ ~run[r].disturbed
        /\ FailedToApply(run[r]) # <<>>
        /\ run[r].notification_text[2].line = "apply_failed"

\* the candidates the run applied and then probed unhealthy
ProbedUnhealthy(rn) == Range(IpsOf(LinesOf(rn, {"test_failed"})))

\* C23: by failover runs alone (no operator update has been handled), every
\* candidate that a run applied and then probed unhealthy is, at the end of
\* that run, in the persisted deprecated list and not in the persisted reserve.
C23_FailedCandidatesDeprecated ==
    ops = 0 =>
        \A r \in RunIds :
            (run[r].pc = "done" /\ run[r].outcome \in {"remediated", "exhausted"}) =>
                \A ip \in ProbedUnhealthy(run[r]) :
                    /\ ip \in Range(ip_file.deprecated)
                    /\ ip \notin Range(ip_file.reserve)

\* this step is a handled clear-deprecated callback
ClearDeprecatedStep == ops' = ops + 1 /\ last_op'.op = "clear_deprecated"

\* C27: the clear-deprecated operation leaves the persisted deprecated list
\* empty and the persisted reserve list exactly as it was; no cleared address
\* is moved into reserve.
C27_ClearNeverRestores ==
    [][(ClearDeprecatedStep /\ ip_file.exists) =>
        /\ ip_file'.exists
        /\ ip_file'.deprecated = <<>>
        /\ ip_file'.reserve = ip_file.reserve
        /\ \A ip \in Range(ip_file.deprecated) : ip \notin Range(ip_file'.reserve)]_vars

\* a deprecated list that held an address has been cleared, the reserve kept
C27_Witness ==
    /\ last_op.op = "clear_deprecated"
    /\ ip_file = Pool(<<"8.8.8.8", "1.1.1.1">>, <<>>)

\* the addresses the add-reserve message handled last appended to reserve
AddedBy(op) ==
    {ip \in Range(new_ips_of(op.text)) :
        ip \notin Range(op.found.reserve) \cup Range(op.found.deprecated)}

\* C34: when an add-reserve message reported addresses as added while a
\* scheduled failover run was in progress, each of them is, when that run
\* ends, in the persisted reserve or deprecated list, or is the content of the
\* run's record (stated here for the added addresses the run did not take as
\* candidates itself).
C34_AdditionsNotLost ==
    \A r \in RunIds :
        (/\ run[r].pc = "done" /\ run[r].user_id = 0
         /\ run[r].outcome \in {"remediated", "exhausted"}
         /\ run[r].disturbed
         /\ last_op.op = "add_reserve" /\ last_op.reply = "added" /\ last_op.added_count > 0)
        => \A ip \in AddedBy(last_op) \ Popped(run[r]) :
                \/ ip \in Range(ip_file.reserve)
                \/ ip \in Range(ip_file.deprecated)
                \/ ip = Content(run[r])

\* the addresses the run has put on the deprecated list of its copy
DeprecatedBy(rn) == Range(rn.ip_lists.deprecated) \ Range(rn.loaded.deprecated)

\* the lines run r adds to its report in this step
NewLines(r) ==
    SubSeq(run'[r].notification_text, Len(run[r].notification_text) + 1,
           Len(run'[r].notification_text))

AddTokens == {"8.8.8.8", "1.0.0.1", "1.1.1.1", "9.9.9.9"}

AddTexts ==
    {Text(leading, tokens, trailing) :
        leading \in BOOLEAN, trailing \in BOOLEAN,
        tokens \in UNION {[1..n -> AddTokens] : n \in 0..MaxTokens}}

AddPools ==
    { NoFile,
      Pool(<<>>, <<>>),
      Pool(<<"8.8.8.8">>, <<"1.0.0.1">>),
      Pool(<<"1.1.1.1", "8.8.8.8">>, <<"1.0.0.1", "2.2.2.2">>) }

InitAdd ==
    /\ ip_file \in AddPools
    /\ settings_file = InitSettings
    /\ inbox \in {<<text>> : text \in AddTexts}
    /\ InitRuns
    /\ InitRest

\* the message reaches handle_message
DeliverMessage(u) ==
    /\ inbox # <<>>
    /\ AddReserveMessage(u, Head(inbox))
    /\ inbox' = Tail(inbox)
    /\ UNCHANGED <<probe_exchange, probe_location, probe_verdict>>

NextAdd ==
    \/ Main
    \/ \E u \in MainOperators : SmartAddPrompt(u)
    \/ \E u \in MainOperators : DeliverMessage(u)

SpecAdd == InitAdd /\ [][NextAdd]_vars

\* the i-th token is an address of neither list and has not occurred before it
IsNewToken(tokens, i, pool) ==
    /\ tokens[i] \notin Range(pool.reserve) \cup Range(pool.deprecated)
    /\ \A j \in 1..(i - 1) : tokens[j] # tokens[i]

\* the tokens at the positions of I, in input order
TokensAt(tokens, I) ==
    [n \in 1..Cardinality(I) |->
        tokens[CHOOSE i \in I : Cardinality({j \in I : j <= i}) = n]]

\* the pool the handler finds: the document, or the default without one
PoolFound == IF ip_file.exists THEN ip_file ELSE Pool(clean_ip_source, <<>>)

\* C8: an add-reserve message appends to reserve exactly the distinct tokens
\* that were in neither list, once each and in input order, leaves deprecated
\* and the reserve it found unchanged as a prefix, and reports their number.
C8_AddReserve ==
    [][(ops' = ops + 1 /\ last_op'.op = "add_reserve" /\ last_op'.reply = "added") =>
        LET tokens == last_op'.text.tokens
            appended == TokensAt(tokens, {i \in DOMAIN tokens : IsNewToken(tokens, i, PoolFound)})
        IN /\ ip_file'.exists
           /\ ip_file'.reserve = PoolFound.reserve \o appended
           /\ ip_file'.deprecated = PoolFound.deprecated
           /\ last_op'.added_count = Len(appended)]_vars

\* a message of four tokens (one of reserve, one of deprecated, a new one
\* twice) has added one address
C8_Witness ==
    /\ last_op.op = "add_reserve"
    /\ last_op.reply = "added"
    /\ last_op.added_count = 1
    /\ Len(last_op.text.tokens) = 4
    /\ Range(last_op.text.tokens) \cap Range(last_op.found.reserve) # {}
    /\ Range(last_op.text.tokens) \cap Range(last_op.found.deprecated) # {}
    /\ Len(ip_file.reserve) = Len(last_op.found.reserve) + 1

\* ------------------------------------------------------- the schedule alone
\* Set-schedule and vantage callbacks against the configurations the handlers
\* can have written, with the scheduled runs they start.
Intervals == {0, 3600}

SchedSettings ==
    { <<>>,
      InitSettings,
      <<Entry("zone1", "rec1", 1800, "ir"), Entry("zone1", "rec2", 3600, "de")>> }

InitSched ==
    /\ ip_file = Pool(<<"8.8.4.4">>, <<>>)
    /\ settings_file \in SchedSettings
    /\ inbox = <<>>
    /\ InitRuns
    /\ InitRest

NextSched ==
    \/ Main
    \/ \E u \in MainOperators, record_id \in RecordIds, interval \in Intervals :
            SetSchedule(u, record_id, interval)
    \/ SetScheduleSave
    \/ \E u \in MainOperators, record_id \in RecordIds : ToggleLocation(u, record_id)
    \/ \E r \in RunIds : ScheduledJobFires(r)
    \/ \E r \in RunIds : ProbeCurrentDone(r)
    \/ \E r \in RunIds : ProbeCandidateDone(r)
    \/ \E r \in RunIds : ReportSent(r)
    \/ \E r \in RunIds : Returned(r)

SpecSched == InitSched /\ [][NextSched]_vars

\* this step is the set_schedule callback being handled
SetScheduleStep == ops' = ops + 1 /\ last_op'.op = "set_schedule"

\* this step is the save that ends it
SaveStep == SavePending /\ last_op'.pc = "saved"

NamedFor(queue, key) == get_jobs_by_name(queue, job_name(key[1], key[2]))

OneLiveTimer == \A key \in Keys : Len(NamedFor(jobs, key)) <= 1

\* C9: the job queue never holds two live jobs named for the same (zone,
\* record), and a set-schedule leaves none of the jobs the key had before it:
\* only the one it registers, when the interval is not 0.
C9_OneTimerPerKey ==
    /\ []OneLiveTimer
    /\ [][SetScheduleStep =>
            LET key == <<last_op'.zone_id, last_op'.record_id>>
                before == {job.id : job \in Range(NamedFor(jobs, key))}
                after == {job.id : job \in Range(NamedFor(jobs', key))}
            IN /\ before \cap after = {}
               /\ Cardinality(after) = IF last_op'.interval > 0 THEN 1 ELSE 0
               /\ \A job \in Range(NamedFor(jobs', key)) : job.interval = last_op'.interval]_vars

\* a nonzero interval has been set twice for rec1, whose job is the second one
C9_Witness ==
    /\ last_op.op = "set_schedule"
    /\ last_op.interval > 0
    /\ last_op.record_id = "rec1"
    /\ next_job_id >= 3
    /\ Len(NamedFor(jobs, <<"zone1", "rec1">>)) = 1
    /\ NamedFor(jobs, <<"zone1", "rec2">>) = <<>>
    /\ <<"zone1", "rec2">> \notin disabled

EntriesFor(record_list, key) ==
    SelectSeq(record_list, LAMBDA e : e.zone_id = key[1] /\ e.record_id = key[2])

\* a scheduled run is started in this step for key
ScheduledRunStarts(key) ==
    \E r \in RunIds :
        /\ run[r].pc = "idle"
        /\ run'[r].pc # "idle"
        /\ run'[r].user_id = 0
        /\ <<run'[r].zone_id, run'[r].record_id>> = key

\* C10: a set-schedule with interval 0 cancels the key's timer at once and
\* its save leaves no entry for the key; the timers and entries of the other
\* keys are unchanged; and no scheduled run is started for a key whose last
\* set-schedule had interval 0.
C10_DisableAutoCheck ==
    [][/\ (SetScheduleStep /\ last_op'.interval = 0) =>
            LET key == <<last_op'.zone_id, last_op'.record_id>>
            IN /\ NamedFor(jobs', key) = <<>>
               /\ \A other \in Keys \ {key} : NamedFor(jobs', other) = NamedFor(jobs, other)
               /\ Len(jobs') = Len(jobs) - Len(NamedFor(jobs, key))
       /\ (SaveStep /\ last_op.interval = 0) =>
            LET key == <<last_op.zone_id, last_op.record_id>>
            IN /\ EntriesFor(settings_file', key) = <<>>
               /\ \A other \in Keys \ {key} :
                    EntriesFor(settings_file', other) = EntriesFor(settings_file, other)
               /\ Len(settings_file') = Len(settings_file) - Len(EntriesFor(settings_file, key))
       /\ \A key \in disabled : ~ScheduledRunStarts(key)]_vars

\* the schedule of rec1, registered at startup with that of rec2, has been
\* disabled and saved; rec2 keeps its entry and its timer
C10_Witness ==
    /\ last_op.op = "set_schedule"
    /\ last_op.pc = "saved"
    /\ last_op.interval = 0
    /\ last_op.record_id = "rec1"
    /\ next_job_id = 3
    /\ <<"zone1", "rec1">> \in disabled
    /\ EntriesFor(settings_file, <<"zone1", "rec1">>) = <<>>
    /\ NamedFor(jobs, <<"zone1", "rec1">>) = <<>>
    /\ Len(NamedFor(jobs, <<"zone1", "rec2">>)) = 1
    /\ Len(EntriesFor(settings_file, <<"zone1", "rec2">>)) = 1

\* ------------------------------------------------------------ the governor
\* More timers than permits: six records are checked on a schedule, all due 10
\* seconds after startup (first=10, line 1001), and an operator starts manual
\* runs.  The window observed is shorter than the intervals, so each timer
\* fires once, in the order of registration.
\* one run more than there are permits
GovRuns == SEMAPHORE_PERMITS + 1

GovRecordIds == <<"rec1", "rec2", "rec3", "rec4", "rec5", "rec6">>

\* a record the operator's menu still shows and the provider no longer has
GoneRecordId == "rec0"

GovKeys == {<<"zone1", GovRecordIds[i]>> : i \in DOMAIN GovRecordIds}

GovRecords == [k \in GovKeys |-> DnsRecord(k[2], "A", "1.1.1.1", 120, FALSE)]

GovSettings == [i \in DOMAIN GovRecordIds |-> Entry("zone1", GovRecordIds[i], 1800, "ir")]

InitGov ==
    \* the reserve is used up
    /\ ip_file = Pool(<<>>, <<"1.1.1.1">>)
    /\ settings_file = GovSettings
    /\ inbox = <<>>
    /\ dns = GovRecords
    /\ run = [r \in 1..GovRuns |-> IdleRun]
    /\ InitRest

\* the next startup timer fires for the first time
GovJobFires(r) ==
    /\ JobFires(r, fired + 1)
    /\ fired' = fired + 1

\* lines 283, 321: send_message raises (the Bot API is unreachable or refuses
\* the message); the exception leaves the run
SendRaises(r) ==
    /\ run[r].pc \in {"send_manual", "send_report"}
    /\ NoneReturning
    /\ Commit(Return(World, r, "raised"), r)
    /\ UNCHANGED <<drawn_vars, sched_vars, op_vars, booted, access_vars>>

\* line 318: the write of the pool document raises (save_data, lines 95-97)
\* in the step that reaches it; the exception leaves the run
PoolWriteRaises(r) ==
    /\ run[r].pc \in {"probe_current", "send_manual", "probe_candidate"}
    /\ NoneReturning
    /\ \E exchange \in RunExchanges, failures \in 0..MaxReserveLen :
        LET w0 == [World EXCEPT !.save_ok = FALSE]
            verdict == check_ip_ping(exchange, run[r].check_location)
            sent == Send(w0, r, run[r].user_id, "manual_result",
                         <<Line(run[r].report_text, run[r].current_ip)>>)
            w == CASE run[r].pc = "probe_current" ->
                        IF failures <= ApplyFailuresAfterCurrent(w0, r, verdict)
                        THEN AfterCurrentProbe(w0, r, verdict, failures) ELSE w0
                   [] run[r].pc = "send_manual" ->
                        IF ~run[r].is_pinging /\ failures <= Len(RunReserve(BeginFailover(sent, r), r))
                        THEN Failover(sent, r, failures) ELSE w0
                   [] OTHER ->
                        IF failures <= ApplyFailuresAfterCandidate(w0, r, verdict)
                        THEN AfterCandidateProbe(w0, r, verdict, failures) ELSE w0
        IN /\ w.run[r].pc = "done"
           /\ w.run[r].outcome = "raised"
           /\ Commit(w, r)
    /\ UNCHANGED <<drawn_vars, sched_vars, op_vars, booted, access_vars>>

GovManualRecordIds == {GoneRecordId, "rec1"}

NextGov ==
    \/ Main
    \/ \E r \in RunSlots : GovJobFires(r)
    \/ \E r \in RunSlots, u \in MainOperators, record_id \in GovManualRecordIds :
            ManualRun(r, u, record_id)
    \/ \E r \in RunSlots : Woken(r)
    \/ \E r \in RunSlots : ProbeCurrentDone(r)
    \/ \E r \in RunSlots : ManualResultSent(r)
    \/ \E r \in RunSlots : ReportSent(r)
    \/ \E r \in RunSlots : Returned(r)

SpecGov == InitGov /\ [][NextGov]_vars

\* the runs between admission and completion
NumAdmitted == Cardinality({r \in RunSlots : Admitted(run[r])})

\* run r gets past the semaphore in this step: it fetches its record and, when
\* there is one, goes on to probe
GetsPast(r) == run[r].pc \in {"idle", "waiting"} /\ run'[r].pc \notin {"idle", "waiting"}

\* C11: at most SEMAPHORE_PERMITS (5) runs, manual and scheduled together, are
\* between admission and completion; a run started while five are in progress
\* waits, and gets past the semaphore (fetch, probe, update) only in a state
\* where fewer than five are in progress.
C11_BoundedAdmission ==
    /\ [](NumAdmitted <= SEMAPHORE_PERMITS)
    /\ [][\A r \in RunSlots :
            /\ GetsPast(r) => NumAdmitted < SEMAPHORE_PERMITS
            /\ (run[r].pc = "idle" /\ run'[r].pc # "idle" /\ NumAdmitted = SEMAPHORE_PERMITS)
                    => /\ run'[r].pc = "waiting"
                       /\ run'[r].record_details = NoRecord
                       /\ UNCHANGED <<dns, pool_vars>>]_vars

\* five runs, a manual one among them, are in progress and a sixth waits
C11_Witness ==
    /\ NumAdmitted = SEMAPHORE_PERMITS
    /\ \E r \in RunSlots : Admitted(run[r]) /\ run[r].user_id # 0
    /\ \E r \in RunSlots : run[r].pc = "waiting" /\ run[r].user_id = 0

\* ------------------------------------------------------ the ways a run ends
\* Scheduled and manual runs with everything that can end them: the lookup
\* finding nothing, a healthy IP, a healthy candidate, the reserve running
\* out, and an exception from the pool write or from send_message.
\* the operator has the menus of rec2 and of a deleted record open
PathsManualRecordIds == {"rec2", GoneRecordId}

InitPaths ==
    /\ ip_file = Pool(<<"8.8.8.8", "1.1.1.1">>, <<"1.0.0.1">>)
    /\ settings_file = InitSettings
    /\ inbox = <<>>
    /\ InitRuns
    /\ InitRest

NextPaths ==
    \/ Main
    \/ \E r \in RunSlots : ScheduledJobFires(r)
    \/ \E r \in RunSlots, u \in MainOperators, record_id \in PathsManualRecordIds :
            ManualRun(r, u, record_id)
    \/ \E r \in RunSlots : ProbeCurrentDone(r)
    \/ \E r \in RunSlots : ManualResultSent(r)
    \/ \E r \in RunSlots : ProbeCandidateDone(r)
    \/ \E r \in RunSlots : ReportSent(r)
    \/ \E r \in RunSlots : SendRaises(r)
    \/ \E r \in RunSlots : PoolWriteRaises(r)
    \/ \E r \in RunSlots : Returned(r)

SpecPaths == InitPaths /\ [][NextPaths]_vars

\* C12: every run holds exactly one permit from its admission (before its
\* first probe) to its end, whatever ends it (record not found, healthy,
\* remediated, exhausted, an exception): the free permits are always the 5 less
\* the runs in progress, so all 5 are free whenever no run is in progress.
C12_NoPermitLeak ==
    booted =>
        /\ semaphore = SEMAPHORE_PERMITS - NumAdmitted
        /\ \A r \in RunSlots :
            run[r].pc = "done" =>
                run[r].outcome \in {"not_found", "healthy", "remediated", "exhausted", "raised"}

\* the third run ends by an exception after it applied a candidate, the two
\* before it have returned, and every permit is free
C12_Witness ==
    /\ semaphore = SEMAPHORE_PERMITS
    /\ NumAdmitted = 0
    /\ \E r \in RunSlots :
        /\ r = 3
        /\ AtReturn(run[r], "raised")
        /\ Applied(run[r]) # <<>>

\* C13: when the lookup of a run's (zone, record) returns nothing, the run
\* ends in the step in which it was admitted: it probes nothing, sends nothing,
\* calls no DNS update, and the pool document, the shared default list and
\* the config document are unchanged.
C13_RecordNotFound ==
    [][\A r \in RunSlots :
        (GetsPast(r) /\ <<run'[r].zone_id, run'[r].record_id>> \notin DOMAIN dns) =>
            /\ run'[r].pc = "done"
            /\ run'[r].outcome = "not_found"
            /\ run'[r].msgs = <<>>
            /\ run'[r].notification_text = <<>>
            /\ semaphore' = semaphore
            /\ UNCHANGED <<dns, pool_vars, settings_file>>]_vars

\* a manual run for a record the provider no longer has ends while a scheduled
\* run, which has applied a candidate, is in progress
C13_Witness ==
    \E r, q \in RunSlots :
        /\ AtReturn(run[r], "not_found")
        /\ run[r].record_id = GoneRecordId
        /\ run[r].user_id # 0
        /\ run[q].pc = "probe_candidate"

\* the messages run rn has sent to chat_id
SentTo(rn, chat_id) == SelectSeq(rn.msgs, LAMBDA msg : msg.chat_id = chat_id)

\* C15: a manual run that ends (other than by an exception) has sent at least
\* one message to the user who started it.
C15_ManualReport ==
    \A r \in RunSlots :
        (run[r].pc = "done" /\ run[r].user_id # 0 /\ run[r].outcome # "raised")
            => SentTo(run[r], run[r].user_id) # <<>>

\* --------------------------------------------------------------- startup
\* main() starts from a config document of at most MaxEntries entries: with
\* an interval of the schedule menu, with interval 0, or with a vantage only.
MaxEntries == 2

BootIntervals == {0, 1800, 3600}

BootEntries ==
    {Entry("zone1", record_id, interval, location) :
        record_id \in RecordIds, interval \in BootIntervals, location \in Locations}
    \cup {LocationEntry("zone1", record_id, location) :
        record_id \in RecordIds, location \in Locations}

InitBoot ==
    /\ ip_file = NoFile
    /\ settings_file \in UNION {[1..n -> BootEntries] : n \in 0..MaxEntries}
    /\ inbox = <<>>
    /\ InitRuns
    /\ InitRest

NextBoot == Main

SpecBoot == InitBoot /\ [][NextBoot]_vars

\* the entries that have an interval greater than 0, in the document's order
WithInterval(record_list) ==
    SelectSeq(record_list, LAMBDA e : "interval" \in DOMAIN e /\ e.interval > 0)

\* C17: after startup the job queue holds exactly one job for each config
\* entry with an interval greater than 0, with that entry's zone, record and
\* interval, and none for an entry with interval 0 or without an interval.
C17_StartupReconstruction ==
    booted =>
        LET scheduled == WithInterval(settings_file)
        IN /\ Len(jobs) = Len(scheduled)
           /\ \A i \in DOMAIN jobs :
                /\ jobs[i].zone_id = scheduled[i].zone_id
                /\ jobs[i].record_id = scheduled[i].record_id
                /\ jobs[i].interval = scheduled[i].interval
                /\ jobs[i].name = job_name(scheduled[i].zone_id, scheduled[i].record_id)
           /\ \A i, j \in DOMAIN jobs : jobs[i].id = jobs[j].id => i = j

\* started from an entry with interval 0 followed by one with an interval: one
\* job, that of the second entry
C17_Witness ==
    /\ booted
    /\ Len(settings_file) = 2
    /\ "interval" \in DOMAIN settings_file[1] /\ settings_file[1].interval = 0
    /\ "interval" \in DOMAIN settings_file[2] /\ settings_file[2].interval = 3600
    /\ Len(jobs) = 1
    /\ jobs[1].record_id = settings_file[2].record_id

\* C19: a scheduled run is never left by an exception: whatever fails inside
\* it, scheduled_job_for_record returns normally to the job queue.
C19_NoRaiseToScheduler ==
    \A r \in RunSlots :
        (run[r].pc = "done" /\ run[r].user_id = 0) => run[r].outcome # "raised"

\* ------------------------------------------------------ edits of a record
\* An operator edits the TTL or the proxy flag of a record from its settings
\* menu while the scheduled check of the record runs.

\* the update wrote the record these runs are working on
Overwrite(rs, d) ==
    [q \in DOMAIN rs |->
        IF Admitted(rs[q]) /\ d[<<rs[q].zone_id, rs[q].record_id>>]
                                # dns[<<rs[q].zone_id, rs[q].record_id>>]
        THEN [rs[q] EXCEPT !.clobbered = TRUE] ELSE rs[q]]

\* callback "update_ttl_<record_id>_<ttl>" (lines 927-933); accepted: the
\* provider accepts the PUT
UpdateTtl(u, record_id, ttl, accepted) ==
    /\ UpdateReady
    /\ Handled
    /\ LET zone_id == user_state[u].zone_id
           record == get_record_details(zone_id, record_id)
           done == record.exists /\ accepted
           d == IF done
                THEN update_dns_record(dns, zone_id, record_id, record.name, record.type,
                                       record.content, ttl, record.proxied)
                ELSE dns
       IN /\ dns' = d
          /\ run' = Overwrite(run, d)
          /\ last_op' = [op |-> "update_ttl", uid |-> u, record_id |-> record_id,
                         reply |-> IF done THEN "ttl_changed" ELSE "failed"]
    /\ UNCHANGED <<drawn_vars, pool_vars, sched_vars, semaphore, user_state, booted, access_vars>>

\* toggle_proxied_status (cloudflare_api.py, lines 254-267)
toggle_proxied_status(d, zone_id, record_id, accepted) ==
    LET record == get_record_details(zone_id, record_id)
    IN IF ~record.exists \/ ~accepted THEN d
       ELSE update_dns_record(d, zone_id, record_id, record.name, record.type,
                              record.content, record.ttl, ~record.proxied)

\* callback "toggle_proxy_<record_id>" (lines 908-912)
ToggleProxy(u, record_id, accepted) ==
    /\ UpdateReady
    /\ Handled
    /\ LET d == toggle_proxied_status(dns, user_state[u].zone_id, record_id, accepted)
       IN /\ dns' = d
          /\ run' = Overwrite(run, d)
          /\ last_op' = [op |-> "toggle_proxy", uid |-> u, record_id |-> record_id,
                         reply |-> IF d # dns THEN "settings" ELSE "failed"]
    /\ UNCHANGED <<drawn_vars, pool_vars, sched_vars, semaphore, user_state, booted, access_vars>>

\* the TTL buttons (lines 921-923) pressed here: Auto and 2 min
EditTtls == {1, 120}

\* the record whose settings menu the operator has open
EditRecordIds == {"rec1"}

InitEdit ==
    /\ ip_file = Pool(<<"8.8.4.4", "8.8.8.8">>, <<>>)
    /\ settings_file = InitSettings
    /\ inbox = <<>>
    /\ InitRuns
    /\ InitRest

NextEdit ==
    \/ Main
    \/ \E r \in RunSlots : ScheduledJobFires(r)
    \/ \E u \in MainOperators, record_id \in EditRecordIds, ttl \in EditTtls, accepted \in BOOLEAN :
            UpdateTtl(u, record_id, ttl, accepted)
    \/ \E u \in MainOperators, record_id \in EditRecordIds, accepted \in BOOLEAN :
            ToggleProxy(u, record_id, accepted)
    \/ \E r \in RunSlots : ProbeCurrentDone(r)
    \/ \E r \in RunSlots : ProbeCandidateDone(r)
    \/ \E r \in RunSlots : ReportSent(r)
    \/ \E r \in RunSlots : Returned(r)

SpecEdit == InitEdit /\ [][NextEdit]_vars

\* C21: when a run applies a candidate, the record's content becomes the
\* candidate, and its name, type, ttl and proxied flag stay what they were at
\* the moment of the update, also when an operator edited ttl or proxied while
\* the run was in progress; no other record changes.
C21_ApplyContentOnly ==
    [][\A r \in RunSlots :
        Applies(r) =>
            LET k == <<run'[r].zone_id, run'[r].record_id>> IN
            /\ dns'[k].content = run'[r].next_ip
            /\ dns'[k].name = dns[k].name
            /\ dns'[k].type = dns[k].type
            /\ dns'[k].ttl = dns[k].ttl
            /\ dns'[k].proxied = dns[k].proxied
            /\ \A other \in Keys \ {k} : dns'[other] = dns[other]]_vars

\* ------------------------------------------- the timers and the config list
\* the persisted entries of a key that ask for a timer
ScheduledFor(record_list, key) ==
    SelectSeq(EntriesFor(record_list, key), LAMBDA e : "interval" \in DOMAIN e /\ e.interval > 0)

\* no update handler is between its first and its last step
OperationsCompleted == booted /\ ~SavePending

\* C24: after startup and after every completed set-schedule and set-vantage,
\* the keys with a live timer are the keys of the persisted entries with an
\* interval greater than 0, and each timer has its entry's interval.
C24_TimersMirrorConfig ==
    OperationsCompleted =>
        /\ \A key \in Keys :
            /\ NamedFor(jobs, key) # <<>> <=> ScheduledFor(settings_file, key) # <<>>
            /\ \A job \in Range(NamedFor(jobs, key)), e \in Range(ScheduledFor(settings_file, key)) :
                    job.interval = e.interval
        /\ \A job \in Range(jobs) :
                /\ <<job.zone_id, job.record_id>> \in Keys
                /\ job.name = job_name(job.zone_id, job.record_id)

\* the interval of rec1 was changed and saved, then a vantage was toggled;
\* rec1 has its timer and rec2 has an entry and no timer
C24_Witness ==
    /\ last_op.op = "toggle_loc"
    /\ \E job \in Range(NamedFor(jobs, <<"zone1", "rec1">>)) : job.interval = 3600 /\ job.id > 1
    /\ EntriesFor(settings_file, <<"zone1", "rec2">>) # <<>>
    /\ NamedFor(jobs, <<"zone1", "rec2">>) = <<>>

\* C25: whatever set-vantage and set-schedule operations are handled, the
\* persisted config list has at most one entry for each (zone_id, record_id),
\* and so has the list a set-schedule is about to save.
C25_ConfigKeyUnique ==
    /\ \A key \in Keys : Len(EntriesFor(settings_file, key)) <= 1
    /\ SavePending => \A key \in Keys : Len(EntriesFor(last_op.record_list, key)) <= 1

\* the entry of rec2 was made by a toggle of its vantage, and an interval was
\* then set for it: still one entry
C25_Witness ==
    /\ last_op.op = "set_schedule" /\ last_op.pc = "saved"
    /\ last_op.record_id = "rec2" /\ last_op.interval = 3600
    /\ settings_file = <<Entry("zone1", "rec2", 3600, "de")>>
    /\ Len(NamedFor(jobs, <<"zone1", "rec2">>)) = 1

\* this step is a handled toggle of a record's vantage
ToggleLocationStep == ops' = ops + 1 /\ last_op'.op = "toggle_loc"

\* C26: a toggle of the vantage of a key without an entry appends one entry
\* for it, without interval (no timer for it now, none at the next startup);
\* for a key with an entry it flips the location between "ir" and "de" and
\* keeps the interval.  The other entries, the timers and the pool stay as
\* they are.
C26_SetVantageUpsert ==
    [][ToggleLocationStep =>
        LET key == <<user_state[last_op'.uid].zone_id, last_op'.record_id>>
            before == EntriesFor(settings_file, key)
            after == EntriesFor(settings_file', key)
        IN /\ Len(after) = 1
           /\ before = <<>> =>
                /\ settings_file' = Append(settings_file, after[1])
                /\ "interval" \notin DOMAIN after[1]
                /\ NamedFor(jobs', key) = <<>>
                /\ NamedFor(RegisterAll(settings_file', 1), key) = <<>>
           /\ before # <<>> =>
                /\ Len(settings_file') = Len(settings_file)
                /\ after[1].location = IF EntryGet(before[1], "location", "ir") = "ir"
                                       THEN "de" ELSE "ir"
                /\ "interval" \in DOMAIN after[1] <=> "interval" \in DOMAIN before[1]
                /\ "interval" \in DOMAIN before[1] => after[1].interval = before[1].interval
           /\ \A other \in Keys \ {key} :
                EntriesFor(settings_file', other) = EntriesFor(settings_file, other)
           /\ jobs' = jobs
           /\ ip_file' = ip_file /\ clean_ip_source' = clean_ip_source]_vars

\* the vantage of rec1 was toggled when it had no entry, and that of rec2 when
\* it had an entry with an interval and a timer
C26_Witness ==
    /\ last_op.op = "toggle_loc"
    /\ settings_file = <<LocationEntry("zone1", "rec1", "de"), Entry("zone1", "rec2", 3600, "de")>>
    /\ NamedFor(jobs, <<"zone1", "rec1">>) = <<>>
    /\ Len(NamedFor(jobs, <<"zone1", "rec2">>)) = 1

\* --------------------------------------------- the pool without a document
\* No pool document exists yet: load_ip_lists returns the default, whose
\* reserve is the list CLEAN_IP_SOURCE itself.  The scheduled check of rec1
\* runs while an operator adds addresses to the reserve.

InitAlias ==
    /\ ip_file = NoFile
    /\ settings_file = InitSettings
    /\ inbox = <<>>
    /\ InitRuns
    /\ InitRest

NextAlias ==
    \/ Main
    \/ \E u \in MainOperators : SmartAddPrompt(u)
    \/ \E u \in MainOperators, text \in MainTexts :
            AddReserveMessage(u, text) /\ UNCHANGED drawn_vars
    \/ \E r \in RunSlots : ScheduledJobFires(r)
    \/ \E r \in RunSlots : ProbeCurrentDone(r)
    \/ \E r \in RunSlots : ProbeCandidateDone(r)
    \/ \E r \in RunSlots : ReportSent(r)
    \/ \E r \in RunSlots : Returned(r)

SpecAlias == InitAlias /\ [][NextAlias]_vars

\* the candidates the run has taken from its reserve, in order
Taken(rn) == IpsOf(LinesOf(rn, {"apply_failed", "replaced"}))

NoRepeats(s) == \A i, j \in DOMAIN s : s[i] = s[j] => i = j

\* C28: a run takes its candidates from the front of the reserve it loaded
\* (without the old IP), in list order, as long as nobody else writes the
\* pool; it never takes an address twice and never takes the old IP; and the
\* reserve, persisted or shared, never holds an address twice.
C28_StrictFifo ==
    /\ \A r \in RunSlots :
        LET rn == run[r]
            c == RemoveFromReserve(rn.loaded.reserve, rn.current_ip)
        IN /\ ~rn.disturbed =>
                /\ Len(Taken(rn)) <= Len(c)
                /\ Taken(rn) = SubSeq(c, 1, Len(Taken(rn)))
           /\ NoRepeats(Taken(rn))
           /\ Taken(rn) # <<>> => rn.current_ip \notin Range(Taken(rn))
    /\ NoRepeats(ip_file.reserve)
    /\ NoRepeats(clean_ip_source)

\* C29: a run that loaded a reserve of n addresses takes at most n candidates
\* (one DNS update each) and sees at most n + 1 probes, that of the current
\* IP included.
C29_BoundedRun ==
    \A r \in RunSlots :
        LET rn == run[r]
            n == Len(rn.loaded.reserve)
        IN rn.pc \notin {"idle", "waiting", "returned"} =>
            /\ Len(Taken(rn)) <= n
            /\ Len(Probed(rn)) + 1 <= n + 1

\* the location of the key in a config list, "ir" when it has no entry
LocationFor(record_list, key) ==
    IF EntriesFor(record_list, key) = <<>> THEN "ir"
    ELSE EntryGet(EntriesFor(record_list, key)[1], "location", "ir")

\* C30: the vantage of a run is the location of its record's config entry at
\* the moment the run starts ("ir" without an entry) and stays the same for
\* every probe of the run, whatever is toggled meanwhile; a candidate is
\* probed only after its update succeeded, and the run awaits one probe at a
\* time: the one of the candidate it applied last.
C30_OneVantage ==
    /\ [][\A r \in RunSlots :
            /\ (~Admitted(run[r]) /\ Admitted(run'[r])) =>
                    run'[r].check_location =
                        LocationFor(settings_file, <<run'[r].zone_id, run'[r].record_id>>)
            /\ (Admitted(run[r]) /\ Admitted(run'[r])) =>
                    run'[r].check_location = run[r].check_location]_vars
    /\ [](\A r \in RunSlots :
            LET text == run[r].notification_text IN
            /\ Admitted(run[r]) => run[r].check_location \in Locations
            /\ \A i \in DOMAIN text :
                text[i].line \in {"test_ok", "test_failed"} =>
                    /\ i > 1
                    /\ text[i - 1] = Line("replaced", text[i].ip)
            /\ run[r].pc = "probe_candidate" =>
                    text[Len(text)] = Line("replaced", run[r].next_ip))

\* a run started from "de" awaits the probe of a candidate after the vantage
\* of its record was toggled to "ir"
C30_Witness ==
    \E r \in RunSlots :
        /\ run[r].pc = "probe_candidate"
        /\ run[r].check_location = "de"
        /\ last_op.op = "toggle_loc"
        /\ LocationFor(settings_file, <<run[r].zone_id, run[r].record_id>>) = "ir"

\* the scheduled run r works on the key of the set-schedule handled last
RunOfLastOp(r) ==
    /\ last_op.op = "set_schedule"
    /\ InFlight(run[r]) /\ run[r].user_id = 0
    /\ <<run[r].zone_id, run[r].record_id>> = <<last_op.zone_id, last_op.record_id>>

\* C31: a set-schedule leaves every run that is in progress, the record and
\* the pool as they are, and a run in progress is never dropped: it goes on
\* until its own return (the scheduled run of the very record can still write
\* the record and save the pool after the change).
C31_NoCancellation ==
    /\ [][(SetScheduleStep \/ SaveStep) =>
            /\ run' = run /\ dns' = dns /\ ip_file' = ip_file
            /\ semaphore' = semaphore]_vars
    /\ [][\A r \in RunSlots : InFlight(run[r]) => run'[r].pc \notin {"idle", "returned"}]_vars
    /\ [][\A r \in RunSlots :
            (RunOfLastOp(r) /\ Applies(r)) =>
                /\ dns'[<<run[r].zone_id, run[r].record_id>>].content = run'[r].next_ip
                /\ run'[r].next_ip \in Range(run'[r].loaded.reserve)]_vars

\* the schedule of rec1 was removed while its scheduled run awaited the probe
\* of the current IP; the run has since written a candidate to the record
C31_Witness ==
    \E r \in RunSlots :
        /\ RunOfLastOp(r)
        /\ last_op.interval = 0 /\ last_op.pc = "saved"
        /\ run[r].pc = "probe_candidate"
        /\ ip_file.reserve # <<>>
        /\ Content(run[r]) = run[r].next_ip

\* what C32 states of the entries of the key before and after a set-schedule
VantageAfterSetSchedule(before, after, interval) ==
    /\ interval = 0 => after = <<>>
    /\ (interval > 0 /\ before = <<>>) =>
            /\ Len(after) = 1
            /\ after[1].interval = interval /\ after[1].location = "ir"
    /\ (interval > 0 /\ before # <<>>) =>
            /\ Len(after) = Len(before)
            /\ after[1].interval = interval
            /\ "location" \in DOMAIN after[1] <=> "location" \in DOMAIN before[1]
            /\ "location" \in DOMAIN before[1] => after[1].location = before[1].location

\* C32: interval 0 deletes the entry of the record, vantage included, and a
\* nonzero interval for a record without entry makes one with vantage "ir": a
\* record stored with "de" has "ir" after a disable/enable cycle.  A nonzero
\* interval for a record with an entry keeps the stored vantage.
C32_VantageLostOnCycle ==
    /\ [][SetScheduleStep =>
            LET key == <<last_op'.zone_id, last_op'.record_id>>
            IN VantageAfterSetSchedule(EntriesFor(settings_file, key),
                                       EntriesFor(last_op'.record_list, key), last_op'.interval)]_vars
    /\ [][SaveStep =>
            LET key == <<last_op.zone_id, last_op.record_id>>
            IN /\ settings_file' = last_op.record_list
               /\ VantageAfterSetSchedule(EntriesFor(settings_file, key),
                                          EntriesFor(settings_file', key), last_op.interval)]_vars

\* rec2, stored with "de", was disabled and is being enabled again: the entry
\* about to be saved has "ir"
C32_Witness ==
    /\ SavePending
    /\ ops = 2
    /\ settings_file = <<Entry("zone1", "rec1", 1800, "ir")>>
    /\ last_op.record_list = <<Entry("zone1", "rec1", 1800, "ir"), Entry("zone1", "rec2", 3600, "ir")>>

\* ------------------------------------------------ the users and the zones
\* the handler's view of the documents and the provider
Documents ==
    [users_file |-> users_file, blocked_file |-> blocked_file,
     requests_file |-> requests_file, zones |-> zones, dns |-> dns,
     user_state |-> user_state, calls |-> {}]

\* the handler's writes reach the documents and the provider
Written(w) ==
    /\ users_file' = w.users_file
    /\ blocked_file' = w.blocked_file
    /\ requests_file' = w.requests_file
    /\ zones' = w.zones
    /\ dns' = w.dns
    /\ user_state' = w.user_state

\* handle_callback (lines 716-976): the user uid presses a button, or sends
\* the data of one
Callback(uid, data) ==
    /\ UpdateReady
    /\ Handled
    /\ LET w == handle_callback(Documents, uid, data) IN
       /\ Written(w)
       /\ last_op' = [op |-> "callback", uid |-> uid, data |-> data,
                      blocked |-> is_user_blocked(Documents, uid),
                      authorized |-> is_user_authorized(Documents, uid),
                      found |-> Documents, calls |-> w.calls]
    /\ UNCHANGED <<drawn_vars, pool_vars, sched_vars, semaphore, run, booted>>

\* handle_message (lines 614-659) in the mode ADDING_USER: the administrator
\* sends the id of the user to add
AddUserMessage(uid, text) ==
    /\ UpdateReady
    /\ Handled
    /\ user_state[uid].mode = "ADDING_USER"
    /\ LET found == Documents
           w == IF is_user_blocked(found, uid) THEN found
                ELSE IF ~is_user_authorized(found, uid) \/ uid # ADMIN_ID THEN Loaded(found)
                ELSE reset_user_state(
                        IF is_int(text) THEN add_user(Loaded(found), int(text)) ELSE Loaded(found),
                        uid)
       IN /\ Written(w)
          /\ last_op' = [op |-> "add_user", uid |-> uid, text |-> text,
                         blocked |-> is_user_blocked(found, uid),
                         authorized |-> is_user_authorized(found, uid),
                         found |-> found, calls |-> w.calls]
    /\ UNCHANGED <<drawn_vars, pool_vars, sched_vars, semaphore, run, booted>>

\* the data the users send: the buttons of the menus, and data no menu offers
AccessTexts == IdTexts \cup {"me"}
CallbackData ==
    {<<"request", "access">>, <<"manage", "users">>, <<"add", "user", "prompt">>,
     <<"noop">>, <<"back", "to", "main">>, <<"delete", "domain", "menu">>}
    \cup {<<"toggle", "access", t, "zone2">> : t \in IdTexts}
    \cup {<<op, "user", t>> : op \in {"delete", "block", "unblock"}, t \in AccessTexts}
    \cup {<<"access", action, t>> : action \in {"approve", "reject", "block"}, t \in IdTexts}
    \cup {<<"confirm", "delete", "zone", z>> : z \in MOCKED_ZONES}
    \cup {<<"delete", "zone", z>> : z \in MOCKED_ZONES}

\* the documents the bot starts with: no users.json, one in the old format,
\* and one in the current format, with the operator blocked, waiting or in
InitUsers ==
    \/ /\ users_file = NoUsersFile
       /\ blocked_file \in {<<>>, <<OTHER_USER>>}
       /\ requests_file = <<>>
    \/ /\ users_file = LegacyUsers(<<ADMIN_ID, OTHER_USER>>)
       /\ blocked_file = <<>>
       /\ requests_file = <<>>
    \/ /\ users_file = UsersDoc(Put(EmptyMap, str(ADMIN_ID), Access(TRUE, <<>>)))
       /\ blocked_file = <<>>
       /\ requests_file = <<[id |-> OTHER_USER]>>
    \/ /\ users_file = UsersDoc(Put(Put(EmptyMap, str(ADMIN_ID), Access(TRUE, <<>>)),
                                    str(OTHER_USER), Access(FALSE, <<"zone1">>)))
       /\ blocked_file = <<>>
       /\ requests_file = <<>>

InitAccessSpec ==
    /\ InitUsers
    /\ zones = MOCKED_ZONES
    /\ ip_file = Pool(<<"8.8.4.4", "8.8.8.8">>, <<>>)
    /\ settings_file = InitSettings
    /\ inbox = <<>>
    /\ InitRuns
    /\ probe_exchange = Exchange("results", <<>>)
    /\ probe_location = "ir"
    /\ probe_verdict = NoVerdict
    /\ clean_ip_source = CLEAN_IP_SOURCE
    /\ jobs = <<>>
    /\ next_job_id = 1
    /\ disabled = {}
    /\ fired = 0
    /\ semaphore = 0
    /\ user_state = [u \in Users |-> [zone_id |-> None, mode |-> "NONE"]]
    /\ booted = FALSE
    /\ ops = 0
    /\ last_op = [op |-> None]

NextAccess ==
    \/ Main
    \/ \E uid \in Users, data \in CallbackData : Callback(uid, data)
    \/ \E uid \in Users, text \in AccessTexts : AddUserMessage(uid, text)

SpecAccess == InitAccessSpec /\ [][NextAccess]_vars

\* C36: no user is both in the authorized users map and in the blocked list,
\* whatever add_user, remove_user, block_user, unblock_user and the approve,
\* reject and block of a request have done.
C36_BlockedAuthorizedDisjoint ==
    \A u \in Users :
        ~(str(u) \in DOMAIN load_users(users_file) /\ u \in Range(blocked_file))

\* the administrator approved the operator, who was blocked: the operator is
\* in the map and no longer in the list
C36_Witness ==
    /\ last_op.op = "callback"
    /\ last_op.uid = ADMIN_ID
    /\ last_op.data = <<"access", "approve", "123456790">>
    /\ OTHER_USER \in Range(last_op.found.blocked_file)
    /\ str(OTHER_USER) \in DOMAIN users_file.users
    /\ blocked_file = <<>>

\* an update whose handler loaded the users map
LoadedUsers == last_op.op \in {"callback", "add_user"} /\ ~last_op.blocked

\* C37: every load of the users map contains ADMIN_ID, block_user never puts
\* ADMIN_ID in the blocked list, and remove_user never takes it out of the
\* map: after every update that loaded the map, users.json holds ADMIN_ID.
C37_AdminNotLockedOut ==
    /\ str(ADMIN_ID) \in DOMAIN load_users(users_file)
    /\ ADMIN_ID \notin Range(blocked_file)
    /\ LoadedUsers =>
            /\ users_file.format = "users"
            /\ str(ADMIN_ID) \in DOMAIN users_file.users
            /\ users_file.users[str(ADMIN_ID)].all

\* the administrator asked for the removal or the blocking of ADMIN_ID
C37_Witness ==
    /\ last_op.op = "callback"
    /\ last_op.uid = ADMIN_ID
    /\ last_op.data \in {<<"delete", "user", "123456789">>, <<"block", "user", "123456789">>,
                         <<"access", "block", "123456789">>}
    /\ ops > 1
    /\ str(ADMIN_ID) \in DOMAIN users_file.users
    /\ blocked_file = <<>>

\* C38: handle_callback calls delete_zone for the administrator only: no
\* callback data of an authorized user other than ADMIN_ID deletes a zone.
C38_ZoneDeletionAdminOnly ==
    (last_op.op = "callback" /\ last_op.uid # ADMIN_ID) => "delete_zone" \notin last_op.calls

\* ----------------------------------------------------- the probe on its own
InitProbe ==
    /\ probe_exchange \in ProbeExchanges
    /\ probe_location \in Locations
    /\ probe_verdict = NoVerdict
    /\ inbox = <<>>
    /\ ip_file = NoFile
    /\ settings_file = <<>>
    /\ clean_ip_source = CLEAN_IP_SOURCE
    /\ jobs = <<>>
    /\ next_job_id = 1
    /\ disabled = {}
    /\ fired = 0
    /\ dns = MOCKED_RECORDS
    /\ run = [r \in RunIds |-> IdleRun]
    /\ semaphore = 0
    /\ user_state = [u \in Users |-> [zone_id |-> None, mode |-> "NONE"]]
    /\ booted = FALSE
    /\ InitAccess
    /\ ops = 0
    /\ last_op = [op |-> None]

CallCheckIpPing ==
    /\ probe_verdict.detail = None
    /\ probe_verdict' = check_ip_ping(probe_exchange, probe_location)
    /\ UNCHANGED <<probe_exchange, probe_location, inbox, pool_vars, sched_vars, run_vars, op_vars, booted, access_vars>>

NextProbe == CallCheckIpPing

SpecProbe == InitProbe /\ [][NextProbe]_vars

\* a node's result holds at least one OK ping
HasOkPing(node) == \E j \in DOMAIN node.pings : node.pings[j] = "OK"

\* C6: on per-node results, check_ip_ping returns success for vantage "ir"
\* exactly when every node has an OK ping, for any other vantage exactly when
\* some node has one, and failure for every vantage when there is no node.
C6_VerdictPolicy ==
    (probe_verdict.detail # None /\ probe_exchange.step = "results") =>
        LET results == probe_exchange.results
            ok_nodes == {i \in DOMAIN results : HasOkPing(results[i])}
        IN probe_verdict.ok =
            (IF results = <<>> THEN FALSE
             ELSE IF probe_location = "ir" THEN ok_nodes = DOMAIN results
             ELSE ok_nodes # {})

\* three nodes of which two have an OK ping: failure from "ir"
C6_Witness ==
    /\ probe_verdict.detail = "count"
    /\ probe_location = "ir"
    /\ Len(probe_exchange.results) = 3
    /\ Cardinality({i \in DOMAIN probe_exchange.results : HasOkPing(probe_exchange.results[i])}) = 2
    /\ ~probe_verdict.ok

\* the node is listed in the result without ping data
NoData(node) == node.kind # "pings"

\* C33: a node without ping data is counted in the total and not as
\* successful: from "ir" one such node makes the verdict a failure whatever
\* the other nodes report, and a result whose nodes all lack data is a failure
\* with the count detail (0 of the number of nodes), not the "no nodes" one.
C33_NoDataNodesFail ==
    (probe_verdict.detail # None /\ probe_exchange.step = "results") =>
        LET results == probe_exchange.results
            lacking == {i \in DOMAIN results : NoData(results[i])}
        IN /\ probe_verdict.total = Len(results)
           /\ probe_verdict.successful <= Len(results) - Cardinality(lacking)
           /\ (probe_location = "ir" /\ lacking # {}) => ~probe_verdict.ok
           /\ (results # <<>> /\ lacking = DOMAIN results) =>
                    /\ ~probe_verdict.ok
                    /\ probe_verdict.detail = "count"
                    /\ probe_verdict.successful = 0

\* from "ir": three nodes, one without data, the two others with an OK ping
C33_Witness ==
    /\ probe_verdict.detail = "count"
    /\ probe_location = "ir"
    /\ Len(probe_exchange.results) = 3
    /\ probe_exchange.results[2].kind = "null"
    /\ HasOkPing(probe_exchange.results[1]) /\ HasOkPing(probe_exchange.results[3])
    /\ probe_verdict.successful = 2 /\ probe_verdict.total = 3
    /\ ~probe_verdict.ok

====
